---- MODULE Spec2Model ----
(***************************************************************************)
(* A model of ip-sla-monitor: the extractor of src/parser.py               *)
(* (IPSLAParser), the worksheet store of src/excel_handler.py              *)
(* (ExcelHandler), the ingestion and chart commands of src/main.py, the    *)
(* chart sheets of src/chart_manager.py and the filter of src/plotter.py.  *)
(*                                                                         *)
(* Five specifications share the module's variables:                       *)
(*   SpecStore  an ExcelHandler whose append_records / sort_by_timestamp   *)
(*              are called in any order with arbitrary batches;            *)
(*   SpecParse  IPSLAParser.parse_content, run block by block on a text;   *)
(*   SpecCalls  parse_content called again and again, on any instance;     *)
(*   SpecBlocks parse_content on texts that vary one part of a block;      *)
(*   Spec       the program: ingest_file, ingest_all_files,                *)
(*              generate_all_charts and the plotter's date filter, the     *)
(*              workbook file persisted between the calls.                 *)
(***************************************************************************)
EXTENDS Integers, Sequences, FiniteSets, TLC

VARIABLES
    data_sheet,   \* ExcelHandler.data_sheet: the worksheet's rows, row 1 first
    call,         \* the last call made on the store / the program, with what it returned
    content,      \* parse_content's argument: the text, a sequence of tokens
    blocks,       \* parse_content: the blocks of re.split still to be visited
    records,      \* parse_content: the list 'records' built so far
    pc,           \* parse_content: "start", "loop", "done" or "raised"
    workbook,     \* main.py: the workbook file OUTPUT_FILE: its rows, <<>> when there is no file
    history,      \* the parse_content calls made so far: parser instance, text, result
    chart_sheets  \* the chart sheets of the workbook file, by sheet name

vars == <<data_sheet, call, content, blocks, records, pc, workbook, history, chart_sheets>>

(***************************************************************************)
(* Bounds of the model.                                                    *)
(***************************************************************************)
MaxBatch == 2      \* longest batch handed to append_records
MaxLines == 2      \* most field lines in the body of a block of a one-block text
MaxBlocks == 3     \* most pieces (blocks, leading text) in a text of several blocks
MaxCalls == 3      \* most parse_content calls in a run of SpecCalls

(***************************************************************************)
(* Values.  A datetime is <<year, month, day, hour, minute, second>>; a    *)
(* float is the decimal <<m, e>>, m / 10^e, with no trailing zero          *)
(* (FloatOf).  A worksheet cell value is tagged with its Python type, as   *)
(* the code branches on isinstance and on None.                            *)
(***************************************************************************)
None == [t |-> "none"]
DtCell(d) == [t |-> "datetime", v |-> d]
IntCell(n) == [t |-> "int", v |-> n]
FloatCell(x) == [t |-> "float", v |-> x]
StrCell(s) == [t |-> "str", v |-> s]

IsDatetime(c) == c.t = "datetime"
IsStr(c) == c.t = "str"

\* datetime.__lt__: lexicographic on (year, month, day, hour, minute, second)
RECURSIVE DtLessFrom(_, _, _)
DtLessFrom(a, b, i) ==
    IF i > 6 THEN FALSE
    ELSE IF a[i] # b[i] THEN a[i] < b[i]
    ELSE DtLessFrom(a, b, i + 1)

DtLess(a, b) == DtLessFrom(a, b, 1)

DatetimeMin == <<1, 1, 1, 0, 0, 0>>

(***************************************************************************)
(* src/config.py                                                           *)
(***************************************************************************)
COLUMNS ==
    << "StartTime", "MinMOS", "MaxMOS", "MinICPIF", "MaxICPIF", "NumRTT",
       "RTT_Min_ms", "RTT_Avg_ms", "RTT_Max_ms", "RTT_Over_Threshold_Count",
       "RTT_Over_Threshold_Pct", "Num_OneWay_Samples", "Jitter_SD_Avg_ms",
       "Jitter_SD_Max_ms", "Jitter_DS_Avg_ms", "Jitter_DS_Max_ms", "Loss_SD",
       "Loss_DS", "Packet_Late_Arrival", "OutOfSeq", "TailDrop", "Successes",
       "Failures" >>

NumColumns == Len(COLUMNS)

(***************************************************************************)
(* src/parser.py: IPSLARecord                                              *)
(***************************************************************************)
IPSLARecord(start_time, min_mos, max_mos, min_icpif, max_icpif, num_rtt, rtt_min_ms, rtt_avg_ms, rtt_max_ms, rtt_over_threshold_count, rtt_over_threshold_pct, num_oneway_samples, jitter_sd_avg_ms, jitter_sd_max_ms, jitter_ds_avg_ms, jitter_ds_max_ms, loss_sd, loss_ds, packet_late_arrival, out_of_seq, tail_drop, successes, failures) ==
    [ start_time |-> start_time, min_mos |-> min_mos, max_mos |-> max_mos,
      min_icpif |-> min_icpif, max_icpif |-> max_icpif, num_rtt |-> num_rtt,
      rtt_min_ms |-> rtt_min_ms, rtt_avg_ms |-> rtt_avg_ms,
      rtt_max_ms |-> rtt_max_ms,
      rtt_over_threshold_count |-> rtt_over_threshold_count,
      rtt_over_threshold_pct |-> rtt_over_threshold_pct,
      num_oneway_samples |-> num_oneway_samples,
      jitter_sd_avg_ms |-> jitter_sd_avg_ms,
      jitter_sd_max_ms |-> jitter_sd_max_ms,
      jitter_ds_avg_ms |-> jitter_ds_avg_ms,
      jitter_ds_max_ms |-> jitter_ds_max_ms, loss_sd |-> loss_sd,
      loss_ds |-> loss_ds, packet_late_arrival |-> packet_late_arrival,
      out_of_seq |-> out_of_seq, tail_drop |-> tail_drop,
      successes |-> successes, failures |-> failures ]

\* the two loss counts in each other's column
to_row_loss_swapped(r) ==
    << DtCell(r.start_time), FloatCell(r.min_mos), FloatCell(r.max_mos),
       FloatCell(r.min_icpif), FloatCell(r.max_icpif), IntCell(r.num_rtt),
       IntCell(r.rtt_min_ms), IntCell(r.rtt_avg_ms), IntCell(r.rtt_max_ms),
       IntCell(r.rtt_over_threshold_count), IntCell(r.rtt_over_threshold_pct),
       IntCell(r.num_oneway_samples), IntCell(r.jitter_sd_avg_ms),
       IntCell(r.jitter_sd_max_ms), IntCell(r.jitter_ds_avg_ms),
       IntCell(r.jitter_ds_max_ms), IntCell(r.loss_ds), IntCell(r.loss_sd),
       IntCell(r.packet_late_arrival), IntCell(r.out_of_seq),
       IntCell(r.tail_drop), IntCell(r.successes), IntCell(r.failures) >>

\* IPSLARecord.to_row: the row of cell values, start_time first
to_row(r) ==
    << DtCell(r.start_time), FloatCell(r.min_mos), FloatCell(r.max_mos),
       FloatCell(r.min_icpif), FloatCell(r.max_icpif), IntCell(r.num_rtt),
       IntCell(r.rtt_min_ms), IntCell(r.rtt_avg_ms), IntCell(r.rtt_max_ms),
       IntCell(r.rtt_over_threshold_count), IntCell(r.rtt_over_threshold_pct),
       IntCell(r.num_oneway_samples), IntCell(r.jitter_sd_avg_ms),
       IntCell(r.jitter_sd_max_ms), IntCell(r.jitter_ds_avg_ms),
       IntCell(r.jitter_ds_max_ms), IntCell(r.loss_sd), IntCell(r.loss_ds),
       IntCell(r.packet_late_arrival), IntCell(r.out_of_seq),
       IntCell(r.tail_drop), IntCell(r.successes), IntCell(r.failures) >>

(***************************************************************************)
(* src/excel_handler.py: the worksheet.  data_sheet[i] is row i, a tuple   *)
(* of NumColumns cell values; a row whose cells exist but hold no value is *)
(* BlankRow.  max_row is the last row that has a cell.                     *)
(***************************************************************************)
BlankRow == [c \in 1..NumColumns |-> None]

HeaderRow == [c \in 1..NumColumns |-> StrCell(COLUMNS[c])]

\* open_or_create, no file: Workbook() and _write_headers
NewSheet == <<HeaderRow>>

max_row(sheet) == IF Len(sheet) = 0 THEN 1 ELSE Len(sheet)

\* worksheet.cell(row, 1) for a read: openpyxl creates the cell when the row has none
TouchRow(sheet, row) ==
    IF row <= Len(sheet) THEN sheet ELSE Append(sheet, BlankRow)

\* writing the cells of one row, as the loops over enumerate(row_data) do
WriteRow(sheet, row, row_data) ==
    IF row <= Len(sheet) THEN [sheet EXCEPT ![row] = row_data]
    ELSE Append(sheet, row_data)

\* datetime.strptime(s, "%Y-%m-%d %H:%M:%S"): the strings a sheet of this model
\* holds are column names, which raise ValueError
Strptime(s) == [ok |-> FALSE, v |-> DatetimeMin]

\* iter_rows(min_row=3): the first data row is missed
get_existing_timestamps_from_row_3(sheet) ==
    { sheet[i][1].v : i \in { j \in 3..Len(sheet) : IsDatetime(sheet[j][1]) } }

\* iter_rows stopping one row short: the last row is missed
get_existing_timestamps_but_last(sheet) ==
    { sheet[i][1].v : i \in { j \in 2..(Len(sheet) - 1) : IsDatetime(sheet[j][1]) } }

\* ExcelHandler.get_existing_timestamps
get_existing_timestamps(sheet) ==
    { sheet[i][1].v : i \in { j \in 2..Len(sheet) : IsDatetime(sheet[j][1]) } }
    \cup
    { Strptime(sheet[i][1].v).v :
        i \in { j \in 2..Len(sheet) :
                  IsStr(sheet[j][1]) /\ Strptime(sheet[j][1].v).ok } }

\* the loop without line 167, existing.add(record.start_time)
RECURSIVE AppendLoopNoAdd(_, _, _, _, _, _, _)
AppendLoopNoAdd(sheet, recs, i, existing, next_row, added, skipped) ==
    IF i > Len(recs)
    THEN [sheet |-> sheet, added |-> added, skipped |-> skipped]
    ELSE IF recs[i].start_time \in existing
    THEN AppendLoopNoAdd(sheet, recs, i + 1, existing, next_row, added, skipped + 1)
    ELSE AppendLoopNoAdd(WriteRow(sheet, next_row, to_row(recs[i])), recs, i + 1,
                         existing, next_row + 1, added + 1, skipped)

\* the loop overwriting the stored row of a key it meets again
RECURSIVE AppendLoopOverwrite(_, _, _, _, _, _, _)
AppendLoopOverwrite(sheet, recs, i, existing, next_row, added, skipped) ==
    IF i > Len(recs)
    THEN [sheet |-> sheet, added |-> added, skipped |-> skipped]
    ELSE IF recs[i].start_time \in existing
    THEN AppendLoopOverwrite(
            [r \in 1..Len(sheet) |->
                IF sheet[r][1] = DtCell(recs[i].start_time)
                THEN to_row(recs[i]) ELSE sheet[r]],
            recs, i + 1, existing, next_row, added, skipped + 1)
    ELSE AppendLoopOverwrite(WriteRow(sheet, next_row, to_row(recs[i])), recs, i + 1,
                             existing \cup {recs[i].start_time}, next_row + 1,
                             added + 1, skipped)

\* the loop without 'skipped += 1' (line 154)
RECURSIVE AppendLoopSkipUncounted(_, _, _, _, _, _, _)
AppendLoopSkipUncounted(sheet, recs, i, existing, next_row, added, skipped) ==
    IF i > Len(recs)
    THEN [sheet |-> sheet, added |-> added, skipped |-> skipped]
    ELSE IF recs[i].start_time \in existing
    THEN AppendLoopSkipUncounted(sheet, recs, i + 1, existing, next_row, added, skipped)
    ELSE AppendLoopSkipUncounted(WriteRow(sheet, next_row, to_row(recs[i])), recs, i + 1,
                                 existing \cup {recs[i].start_time}, next_row + 1,
                                 added + 1, skipped)

\* the for loop of append_records over the records from index i on
RECURSIVE AppendLoop(_, _, _, _, _, _, _)
AppendLoop(sheet, recs, i, existing, next_row, added, skipped) ==
    IF i > Len(recs)
    THEN [sheet |-> sheet, added |-> added, skipped |-> skipped]
    ELSE IF recs[i].start_time \in existing
    THEN AppendLoop(sheet, recs, i + 1, existing, next_row, added, skipped + 1)
    ELSE AppendLoop(WriteRow(sheet, next_row, to_row(recs[i])), recs, i + 1,
                    existing \cup {recs[i].start_time}, next_row + 1,
                    added + 1, skipped)

\* ExcelHandler.append_records: the sheet after the call and (added, skipped)
append_records(sheet, recs) ==
    LET existing == get_existing_timestamps(sheet)
        next_row == max_row(sheet) + 1
        \* line 147 reads cell (2, 1) when next_row is 2, which creates it
        touched == IF next_row = 2 THEN TouchRow(sheet, 2) ELSE sheet
    IN  AppendLoop(touched, recs, 1, existing, next_row, 0, 0)

\* the key of the sort: the timestamp, datetime.min for any other value
SortKey(row) == IF IsDatetime(row[1]) THEN row[1].v ELSE DatetimeMin

\* list.sort(key=...): a stable sort, here by insertion
RECURSIVE InsertSorted(_, _)
InsertSorted(sorted, row) ==
    IF sorted = <<>> THEN <<row>>
    ELSE IF DtLess(SortKey(row), SortKey(sorted[Len(sorted)]))
    THEN Append(InsertSorted(SubSeq(sorted, 1, Len(sorted) - 1), row),
                sorted[Len(sorted)])
    ELSE Append(sorted, row)

RECURSIVE SortRows(_)
SortRows(rows) ==
    IF rows = <<>> THEN <<>>
    ELSE InsertSorted(SortRows(SubSeq(rows, 1, Len(rows) - 1)), rows[Len(rows)])

\* iter_rows(min_row=3): the first data row is not collected
DataRowsFromRow3(sheet) ==
    LET Pick(row) == row[1] # None
    IN  SelectSeq(SubSeq(sheet, 3, Len(sheet)), Pick)

\* the rows sort_by_timestamp collects: rows 2.. whose first cell is not None
DataRows(sheet) ==
    LET Pick(row) == row[1] # None
    IN  SelectSeq(SubSeq(sheet, 2, Len(sheet)), Pick)

\* a sort that rewrites the rows in the order it collected them
sort_by_timestamp_unsorted(sheet) ==
    IF max_row(sheet) <= 1 THEN sheet
    ELSE LET data_rows == DataRows(sheet)
         IN  [i \in 1..Len(sheet) |->
                IF i = 1 THEN sheet[1]
                ELSE IF i - 1 <= Len(data_rows) THEN data_rows[i - 1]
                ELSE BlankRow]

\* ExcelHandler.sort_by_timestamp: clear rows 2..max_row, rewrite the sorted rows
sort_by_timestamp(sheet) ==
    IF max_row(sheet) <= 1 THEN sheet
    ELSE LET data_rows == SortRows(DataRows(sheet))
         IN  [i \in 1..Len(sheet) |->
                IF i = 1 THEN sheet[1]
                ELSE IF i - 1 <= Len(data_rows) THEN data_rows[i - 1]
                ELSE BlankRow]

(***************************************************************************)
(* src/parser.py: the text.  A text is a sequence of tokens, the pieces    *)
(* that whitespace separates: the marker, the pieces of a timestamp line,  *)
(* a field label with the literals that follow it, or any other text.  A   *)
(* literal is a sequence of characters.  The regular expressions of        *)
(* PATTERNS join their pieces with \s+ or \s*, so each is a run of         *)
(* adjacent tokens, whatever lines the tokens stand on.                    *)
(***************************************************************************)
Digits == {"0", "1", "2", "3", "4", "5", "6", "7", "8", "9"}
DecChars == Digits \cup {"."}

DigitVal(c) ==
    CASE c = "0" -> 0 [] c = "1" -> 1 [] c = "2" -> 2 [] c = "3" -> 3
      [] c = "4" -> 4 [] c = "5" -> 5 [] c = "6" -> 6 [] c = "7" -> 7
      [] c = "8" -> 8 [] c = "9" -> 9

Tok(k, w, lits) == [k |-> k, w |-> w, lits |-> lits]
Marker == Tok("marker", "Start Time Index:", <<>>)
Clock(hh, mm, ss) == Tok("clock", "", <<hh, mm, ss>>)
Word(w) == Tok("word", w, <<>>)
Number(d) == Tok("digits", "", <<d>>)
Field(label, lits) == Tok("field", label, lits)
Junk(w) == Tok("junk", w, <<>>)
\* whitespace with no piece after it: a whitespace-only text, blank lines
\* before the first marker
Blank == Tok("space", "", <<>>)

\* every character of lit is of the class, and there is one: (\d+) or ([\d.]+)
\* followed by a separator
FullIn(lit, cls) == lit # <<>> /\ \A i \in 1..Len(lit) : lit[i] \in cls

\* the longest prefix of lit within the class: what a greedy (\d+) captures
RECURSIVE PrefixIn(_, _)
PrefixIn(lit, cls) ==
    IF lit = <<>> \/ lit[1] \notin cls THEN <<>>
    ELSE <<lit[1]>> \o PrefixIn(Tail(lit), cls)

\* int(s) of a string of digits
RECURSIVE IntOf(_)
IntOf(lit) ==
    IF lit = <<>> THEN 0
    ELSE 10 * IntOf(SubSeq(lit, 1, Len(lit) - 1)) + DigitVal(lit[Len(lit)])

RECURSIVE Normalise(_, _)
Normalise(m, e) ==
    IF e > 0 /\ m % 10 = 0 THEN Normalise(m \div 10, e - 1) ELSE <<m, e>>

DotCount(lit) == Cardinality({i \in 1..Len(lit) : lit[i] = "."})

\* float(s) of a string of digits and dots: ValueError with two dots or no digit
FloatOf(lit) ==
    LET IsDigit(c) == c \in Digits
        ds == SelectSeq(lit, IsDigit)
        dot == IF DotCount(lit) = 0 THEN 0
               ELSE CHOOSE i \in 1..Len(lit) : lit[i] = "."
        frac == IF DotCount(lit) = 0 THEN 0 ELSE Len(lit) - dot
    IN  IF DotCount(lit) > 1 \/ ds = <<>>
        THEN [ok |-> FALSE, v |-> <<0, 0>>]
        ELSE [ok |-> TRUE, v |-> Normalise(IntOf(ds), frac)]

(***************************************************************************)
(* IPSLAParser.PATTERNS.  A pattern of the optional groups is the labels   *)
(* it joins, the number of literals it captures after each label, the      *)
(* character class of its captures, and whether text may follow its last   *)
(* capture (rtt_threshold closes with "%)", the others end on the capture).*)
(***************************************************************************)
Pat(labels, arity, cls, open) ==
    [labels |-> labels, arity |-> arity, cls |-> cls, open |-> open]

PATTERNS ==
    [ voice_scores |->
        Pat(<<"MinOfICPIF:", "MaxOfICPIF:", "MinOfMOS:", "MaxOfMOS:">>,
            <<1, 1, 1, 1>>, DecChars, TRUE),
      rtt_values |->
        Pat(<<"Number Of RTT:", "RTT Min/Avg/Max:">>, <<1, 3>>, Digits, TRUE),
      oneway_samples |->
        Pat(<<"Number of Latency one-way Samples:">>, <<1>>, Digits, TRUE),
      rtt_threshold |->
        Pat(<<"Number Of RTT Over Threshold:">>, <<2>>, Digits, FALSE),
      jitter_sd |->
        Pat(<<"Source to Destination Jitter Min/Avg/Max:">>, <<3>>, Digits, TRUE),
      jitter_ds |->
        Pat(<<"Destination to Source Jitter Min/Avg/Max:">>, <<3>>, Digits, TRUE),
      loss_sd |-> Pat(<<"Loss Source to Destination:">>, <<1>>, Digits, TRUE),
      loss_ds |-> Pat(<<"Loss Destination to Source:">>, <<1>>, Digits, TRUE),
      out_of_seq_tail |->
        Pat(<<"Out Of Sequence:", "Tail Drop:">>, <<1, 1>>, Digits, TRUE),
      late_arrival |-> Pat(<<"Packet Late Arrival:">>, <<1>>, Digits, TRUE),
      successes |-> Pat(<<"Number of successes:">>, <<1>>, Digits, TRUE),
      failures |-> Pat(<<"Number of failures:">>, <<1>>, Digits, TRUE) ]

GroupNames == DOMAIN PATTERNS

\* IPSLAParser.MONTHS, and MONTHS.get(month_str, 1)
MONTHS ==
    [ Jan |-> 1, Feb |-> 2, Mar |-> 3, Apr |-> 4, May |-> 5, Jun |-> 6,
      Jul |-> 7, Aug |-> 8, Sep |-> 9, Oct |-> 10, Nov |-> 11, Dec |-> 12 ]

\* a month table that counts from 0
MonthsGetFromZero(month_str) ==
    IF month_str \in DOMAIN MONTHS THEN MONTHS[month_str] - 1 ELSE 1

MonthsGet(month_str) ==
    IF month_str \in DOMAIN MONTHS THEN MONTHS[month_str] ELSE 1

\* the j-th label of the pattern matches the token at position i + j - 1
MatchTok(tok, pat, j) ==
    /\ tok.k = "field"
    /\ tok.w = pat.labels[j]
    /\ Len(tok.lits) = pat.arity[j]
    /\ \A n \in 1..Len(tok.lits) :
         IF pat.open /\ j = Len(pat.labels) /\ n = Len(tok.lits)
         THEN PrefixIn(tok.lits[n], pat.cls) # <<>>
         ELSE FullIn(tok.lits[n], pat.cls)

MatchAt(tokens, i, pat) ==
    /\ i + Len(pat.labels) - 1 <= Len(tokens)
    /\ \A j \in 1..Len(pat.labels) : MatchTok(tokens[i + j - 1], pat, j)

\* pattern.search(block): the position of the first match, 0 when there is none
RECURSIVE SearchFrom(_, _, _)
SearchFrom(tokens, pat, i) ==
    IF i > Len(tokens) THEN 0
    ELSE IF MatchAt(tokens, i, pat) THEN i
    ELSE SearchFrom(tokens, pat, i + 1)

Search(tokens, pat) == SearchFrom(tokens, pat, 1)

\* match.groups(): the captured strings, in order
RECURSIVE GroupsFrom(_, _, _, _)
GroupsFrom(tokens, i, pat, j) ==
    IF j > Len(pat.labels) THEN <<>>
    ELSE LET lits == tokens[i + j - 1].lits
         IN  [n \in 1..Len(lits) |-> PrefixIn(lits[n], pat.cls)]
             \o GroupsFrom(tokens, i, pat, j + 1)

Groups(tokens, i, pat) == GroupsFrom(tokens, i, pat, 1)

\* PATTERNS['start_time'] at position i: the marker, \d{2}:\d{2}:\d{2}, three
\* \w+ (timezone, weekday, month), \d+ (day) and \d{4} (year)
IsW(tok) == tok.k \in {"word", "digits"}

MatchStartTimeAt(tokens, i) ==
    /\ tokens[i].k = "marker"
    /\ i + 6 <= Len(tokens)
    /\ tokens[i + 1].k = "clock"
    /\ \A n \in 1..3 : /\ Len(tokens[i + 1].lits[n]) = 2
                       /\ FullIn(tokens[i + 1].lits[n], Digits)
    /\ IsW(tokens[i + 2])
    /\ IsW(tokens[i + 3])
    /\ IsW(tokens[i + 4])
    /\ tokens[i + 5].k = "digits"
    /\ tokens[i + 6].k = "digits"
    /\ Len(tokens[i + 6].lits[1]) >= 4

RECURSIVE SearchStartTimeFrom(_, _)
SearchStartTimeFrom(tokens, i) ==
    IF i > Len(tokens) THEN 0
    ELSE IF MatchStartTimeAt(tokens, i) THEN i
    ELSE SearchStartTimeFrom(tokens, i + 1)

SearchStartTime(tokens) == SearchStartTimeFrom(tokens, 1)

\* calendar.monthrange, as datetime's constructor checks the day
IsLeap(y) == y % 4 = 0 /\ (y % 100 # 0 \/ y % 400 = 0)

DaysInMonth(y, m) ==
    IF m = 2 THEN (IF IsLeap(y) THEN 29 ELSE 28)
    ELSE IF m \in {4, 6, 9, 11} THEN 30 ELSE 31

\* datetime(year, month, day, hour, minute, second) raises ValueError outside these
DatetimeOk(y, mo, d, h, mi, s) ==
    /\ y \in 1..9999
    /\ mo \in 1..12
    /\ d >= 1 /\ d <= DaysInMonth(y, mo)
    /\ h \in 0..23
    /\ mi \in 0..59
    /\ s \in 0..59

(***************************************************************************)
(* IPSLAParser._parse_block.  A result is a Record, None, or an exception  *)
(* raised inside the try.                                                  *)
(***************************************************************************)
RecordResult(r) == [kind |-> "record", rec |-> r]
NoneResult == [kind |-> "none", rec |-> <<>>]
RaiseResult == [kind |-> "raise", rec |-> <<>>]

\* the clock read as the timezone's local time and turned into UTC
StartTimeAtInUtc(tokens, i) ==
    LET time_str == tokens[i + 1].lits
        tz == tokens[i + 2]
        month_tok == tokens[i + 4]
        month_str == IF month_tok.k = "word" THEN month_tok.w ELSE ""
        offset == IF tz.k = "word" /\ tz.w = "EST" THEN 5
                  ELSE IF tz.k = "word" /\ tz.w = "PDT" THEN 7 ELSE 0
        hour == (IntOf(time_str[1]) + offset) % 24
        minute == IntOf(time_str[2])
        second == IntOf(time_str[3])
        month == MonthsGet(month_str)
        day == IntOf(tokens[i + 5].lits[1])
        year == IntOf(SubSeq(tokens[i + 6].lits[1], 1, 4))
    IN  [ok |-> DatetimeOk(year, month, day, hour, minute, second),
         v |-> <<year, month, day, hour, minute, second>>]

\* lines 207-210: the datetime of the match at position i
StartTimeAt(tokens, i) ==
    LET time_str == tokens[i + 1].lits
        month_tok == tokens[i + 4]
        month_str == IF month_tok.k = "word" THEN month_tok.w ELSE ""
        hour == IntOf(time_str[1])
        minute == IntOf(time_str[2])
        second == IntOf(time_str[3])
        month == MonthsGet(month_str)
        day == IntOf(tokens[i + 5].lits[1])
        year == IntOf(SubSeq(tokens[i + 6].lits[1], 1, 4))
    IN  [ok |-> DatetimeOk(year, month, day, hour, minute, second),
         v |-> <<year, month, day, hour, minute, second>>]

\* an absent group left at a sentinel instead of zero
IntsOfSentinel(tokens, pat, n) ==
    LET i == Search(tokens, pat)
    IN  IF i = 0 THEN [k \in 1..n |-> -1]
        ELSE [k \in 1..n |-> IntOf(Groups(tokens, i, pat)[k])]

\* each label of the group searched for on its own: a label that is found
\* gives its values, a label that is not gives zeros
IntsOfFieldwise(tokens, pat, n) ==
    [k \in 1..n |->
        LET j == IF k <= pat.arity[1] THEN 1 ELSE 2
            m == IF k <= pat.arity[1] THEN k ELSE k - pat.arity[1]
            at == {i \in 1..Len(tokens) : MatchTok(tokens[i], pat, j)}
        IN  IF at = {} THEN 0
            ELSE IntOf(PrefixIn(tokens[CHOOSE i \in at : \A q \in at : i <= q].lits[m],
                                pat.cls))]

\* map(int, match.groups()) of an integer group, or its zeros when it is absent
IntsOf(tokens, pat, n) ==
    LET i == Search(tokens, pat)
    IN  IF i = 0 THEN [k \in 1..n |-> 0]
        ELSE [k \in 1..n |-> IntOf(Groups(tokens, i, pat)[k])]

\* the voice scores unpacked MOS first: the ICPIF values land in the MOS fields
VoiceOfMosFirst(tokens) ==
    LET i == Search(tokens, PATTERNS.voice_scores)
        swapped == <<3, 4, 1, 2>>
    IN  IF i = 0 THEN [k \in 1..4 |-> [ok |-> TRUE, v |-> <<0, 0>>]]
        ELSE [k \in 1..4 |->
                FloatOf(Groups(tokens, i, PATTERNS.voice_scores)[swapped[k]])]

\* map(float, match.groups()) of the voice scores: each float's ok and value
VoiceOf(tokens) ==
    LET i == Search(tokens, PATTERNS.voice_scores)
    IN  IF i = 0 THEN [k \in 1..4 |-> [ok |-> TRUE, v |-> <<0, 0>>]]
        ELSE [k \in 1..4 |-> FloatOf(Groups(tokens, i, PATTERNS.voice_scores)[k])]

\* a block without a timestamp emitted with a default start_time
NoStartTimeDefault(block) ==
    RecordResult(IPSLARecord(DatetimeMin, <<0, 0>>, <<0, 0>>, <<0, 0>>, <<0, 0>>,
                             0, 0, 0, 0, 0, 0, 0, 0, 0, 0, 0, 0, 0, 0, 0, 0, 0, 0))

\* lines 203-205: no match of the timestamp pattern: return None
NoStartTime(block) == NoneResult

\* the three jitter values unpacked as avg, max, _: the minimum is kept as the
\* average and the maximum is dropped
TryParseBlockKeepsJitterMin(block) ==
    LET at == SearchStartTime(block)
        start_time == StartTimeAt(block, at)
        voice == VoiceOf(block)
        rtt == IntsOf(block, PATTERNS.rtt_values, 4)
        oneway == IntsOf(block, PATTERNS.oneway_samples, 1)
        thr == IntsOf(block, PATTERNS.rtt_threshold, 2)
        jsd == IntsOf(block, PATTERNS.jitter_sd, 3)
        jds == IntsOf(block, PATTERNS.jitter_ds, 3)
        lsd == IntsOf(block, PATTERNS.loss_sd, 1)
        lds == IntsOf(block, PATTERNS.loss_ds, 1)
        oos == IntsOf(block, PATTERNS.out_of_seq_tail, 2)
        late == IntsOf(block, PATTERNS.late_arrival, 1)
        succ == IntsOf(block, PATTERNS.successes, 1)
        fail == IntsOf(block, PATTERNS.failures, 1)
    IN  IF at = 0 THEN NoStartTime(block)
        ELSE IF ~start_time.ok THEN RaiseResult
        ELSE IF \E k \in 1..4 : ~voice[k].ok THEN RaiseResult
        ELSE RecordResult(IPSLARecord(
                start_time.v,
                voice[3].v, voice[4].v, voice[1].v, voice[2].v,
                rtt[1], rtt[2], rtt[3], rtt[4],
                thr[1], thr[2],
                oneway[1],
                jsd[1], jsd[2],
                jds[1], jds[2],
                lsd[1], lds[1],
                late[1],
                oos[1], oos[2],
                succ[1], fail[1]))

\* the body of the try: lines 201-302
TryParseBlock(block) ==
    LET at == SearchStartTime(block)
        start_time == StartTimeAt(block, at)
        voice == VoiceOf(block)
        rtt == IntsOf(block, PATTERNS.rtt_values, 4)
        oneway == IntsOf(block, PATTERNS.oneway_samples, 1)
        thr == IntsOf(block, PATTERNS.rtt_threshold, 2)
        jsd == IntsOf(block, PATTERNS.jitter_sd, 3)
        jds == IntsOf(block, PATTERNS.jitter_ds, 3)
        lsd == IntsOf(block, PATTERNS.loss_sd, 1)
        lds == IntsOf(block, PATTERNS.loss_ds, 1)
        oos == IntsOf(block, PATTERNS.out_of_seq_tail, 2)
        late == IntsOf(block, PATTERNS.late_arrival, 1)
        succ == IntsOf(block, PATTERNS.successes, 1)
        fail == IntsOf(block, PATTERNS.failures, 1)
    IN  IF at = 0 THEN NoStartTime(block)
        ELSE IF ~start_time.ok THEN RaiseResult
        ELSE IF \E k \in 1..4 : ~voice[k].ok THEN RaiseResult
        ELSE RecordResult(IPSLARecord(
                start_time.v,
                voice[3].v, voice[4].v, voice[1].v, voice[2].v,
                rtt[1], rtt[2], rtt[3], rtt[4],
                thr[1], thr[2],
                oneway[1],
                jsd[2], jsd[3],
                jds[2], jds[3],
                lsd[1], lds[1],
                late[1],
                oos[1], oos[2],
                succ[1], fail[1]))

\* no except clause: the exception leaves _parse_block
CatchNothing(result) == result

\* except Exception: log and return None (lines 304-306)
Catch(result) == IF result.kind = "raise" THEN NoneResult ELSE result

_parse_block(block) == Catch(TryParseBlock(block))

(***************************************************************************)
(* IPSLAParser.parse_content                                               *)
(***************************************************************************)
\* a cut after every marker: the marker closes the block before it
RECURSIVE SplitFromAfterMarker(_, _, _)
SplitFromAfterMarker(text, i, cur) ==
    IF i > Len(text) THEN <<cur>>
    ELSE IF text[i] = Marker
    THEN <<Append(cur, Marker)>> \o SplitFromAfterMarker(text, i + 1, <<>>)
    ELSE SplitFromAfterMarker(text, i + 1, Append(cur, text[i]))

\* re.split(r'(?=Start Time Index:)', content): a cut before every marker
RECURSIVE SplitFrom(_, _, _)
SplitFrom(text, i, cur) ==
    IF i > Len(text) THEN <<cur>>
    ELSE IF text[i] = Marker
    THEN <<cur>> \o SplitFrom(text, i + 1, <<Marker>>)
    ELSE SplitFrom(text, i + 1, Append(cur, text[i]))

re_split(text) == SplitFrom(text, 1, <<>>)

\* line 179: not block.strip() or 'Start Time Index:' not in block
Skipped(block) ==
    \/ \A i \in 1..Len(block) : block[i] = Blank
    \/ ~(\E i \in 1..Len(block) : block[i] = Marker)

\* records.insert(0, record)
CollectFirst(recs, result) ==
    IF result.kind = "record" THEN <<result.rec>> \o recs ELSE recs

\* a record whose start_time was seen already is dropped
CollectDistinct(recs, result) ==
    IF /\ result.kind = "record"
       /\ \A i \in 1..Len(recs) : recs[i].start_time # result.rec.start_time
    THEN Append(recs, result.rec) ELSE recs

\* lines 183-184: records.append(record) when a record came back
Collect(recs, result) ==
    IF result.kind = "record" THEN Append(recs, result.rec) ELSE recs

\* the whole loop, for the callers of parse_content
RECURSIVE ParseBlocks(_, _)
ParseBlocks(bs, recs) ==
    IF bs = <<>> THEN recs
    ELSE IF Skipped(Head(bs)) THEN ParseBlocks(Tail(bs), recs)
    ELSE ParseBlocks(Tail(bs), Collect(recs, _parse_block(Head(bs))))

parse_content(text) == ParseBlocks(re_split(text), <<>>)

(***************************************************************************)
(* The texts parse_content is run on.  Timestamp lines: the six pieces     *)
(* after the marker.                                                       *)
(***************************************************************************)
Ts(hh, mm, ss, tz, dow, mon, day, year) ==
    <<Clock(hh, mm, ss), Word(tz), Word(dow), Word(mon), Number(day), Number(year)>>

Y2026 == <<"2", "0", "2", "6">>
Y2024 == <<"2", "0", "2", "4">>

TsJan28 == Ts(<<"0", "9">>, <<"2", "8">>, <<"1", "6">>, "EST", "Wed", "Jan", <<"2", "8">>, Y2026)
TsJan28Early == Ts(<<"0", "8">>, <<"2", "8">>, <<"1", "6">>, "EST", "Wed", "Jan", <<"2", "8">>, Y2026)
TsJan28Utc == Ts(<<"0", "9">>, <<"2", "8">>, <<"1", "6">>, "UTC", "Mon", "Jan", <<"2", "8">>, Y2026)
TsDec31 == Ts(<<"2", "3">>, <<"5", "9">>, <<"5", "9">>, "EST", "Thu", "Dec", <<"3", "1">>, Y2026)
TsLeapDay == Ts(<<"0", "0">>, <<"0", "0">>, <<"0", "0">>, "EST", "Thu", "Feb", <<"2", "9">>, Y2024)
TsJun5 == Ts(<<"1", "2">>, <<"0", "0">>, <<"0", "0">>, "PDT", "Fri", "Jun", <<"5">>, Y2026)
TsFoo == Ts(<<"0", "9">>, <<"2", "8">>, <<"1", "6">>, "EST", "Wed", "Foo", <<"2", "8">>, Y2026)
TsFeb30 == Ts(<<"0", "9">>, <<"2", "8">>, <<"1", "6">>, "EST", "Mon", "Feb", <<"3", "0">>, Y2026)
TsFeb29 == Ts(<<"0", "9">>, <<"2", "8">>, <<"1", "6">>, "EST", "Sun", "Feb", <<"2", "9">>, Y2026)
TsHour25 == Ts(<<"2", "5">>, <<"2", "8">>, <<"1", "6">>, "EST", "Wed", "Jan", <<"2", "8">>, Y2026)
TsShortClock == Ts(<<"9">>, <<"2", "8">>, <<"1", "6">>, "EST", "Wed", "Jan", <<"2", "8">>, Y2026)
TsShortYear == Ts(<<"0", "9">>, <<"2", "8">>, <<"1", "6">>, "EST", "Wed", "Jan", <<"2", "8">>, <<"2", "6">>)
TsNoZone == <<Clock(<<"0", "9">>, <<"2", "8">>, <<"1", "6">>), Word("Wed"), Word("Jan"),
              Number(<<"2", "8">>), Number(Y2026)>>
TsNone == <<Junk("unknown")>>

TsLines ==
    { TsJan28, TsJan28Early, TsJan28Utc, TsDec31, TsLeapDay, TsJun5, TsFoo, TsFeb30,
      TsFeb29, TsHour25, TsShortClock, TsShortYear, TsNoZone, TsNone }

\* Field lines, as the router prints them, and lines cut short or malformed.
LineVoice ==
    << Field("MinOfICPIF:", <<<<"1">>>>), Field("MaxOfICPIF:", <<<<"7", "7">>>>),
       Field("MinOfMOS:", <<<<"1", ".", "5", "1">>>>),
       Field("MaxOfMOS:", <<<<"4", ".", "3", "4">>>>) >>
LineVoiceBad ==
    << Field("MinOfICPIF:", <<<<"1", ".", "2", ".", "3">>>>),
       Field("MaxOfICPIF:", <<<<"7", "7">>>>),
       Field("MinOfMOS:", <<<<"1", ".", "5", "0">>>>),
       Field("MaxOfMOS:", <<<<"4", ".", "3", "4">>>>) >>
LineVoiceCut ==
    << Field("MinOfICPIF:", <<<<"1">>>>), Field("MaxOfICPIF:", <<<<"7", "7">>>>),
       Field("MinOfMOS:", <<<<"1", ".", "5", "1">>>>) >>
LineRtt ==
    << Field("Number Of RTT:", <<<<"5", "9", "1", "0", "9">>>>),
       Field("RTT Min/Avg/Max:", <<<<"8">>, <<"1", "2", "0">>, <<"2", "3", "3", "2">>>>),
       Junk("milliseconds") >>
LineRttCut == << Field("Number Of RTT:", <<<<"5", "9", "1", "0", "9">>>>) >>
LineOneway == << Field("Number of Latency one-way Samples:", <<<<"3">>>>) >>
LineThreshold ==
    << Field("Number Of RTT Over Threshold:", <<<<"9", "5", "2", "8">>, <<"1", "6">>>>) >>
LineThresholdOver ==
    << Field("Number Of RTT Over Threshold:", <<<<"1", "2">>, <<"1", "5", "0">>>>) >>
LineJitterSD ==
    << Field("Source to Destination Jitter Min/Avg/Max:",
             <<<<"0">>, <<"5">>, <<"4", "6", "8">>>>), Junk("milliseconds") >>
LineJitterSDMin ==
    << Field("Source to Destination Jitter Min/Avg/Max:",
             <<<<"2">>, <<"5">>, <<"4", "6", "8">>>>), Junk("milliseconds") >>
LineJitterDS ==
    << Field("Destination to Source Jitter Min/Avg/Max:",
             <<<<"0">>, <<"4">>, <<"6", "4">>>>), Junk("milliseconds") >>
LineLossSD == << Field("Loss Source to Destination:", <<<<"7">>>>) >>
LineLossDS == << Field("Loss Destination to Source:", <<<<"1", "2", "2">>>>) >>
LineOutOfSeq ==
    << Field("Out Of Sequence:", <<<<"5">>>>), Field("Tail Drop:", <<<<"3", "9">>>>) >>
LineOutOfSeqCut == << Field("Out Of Sequence:", <<<<"5">>>>) >>
LineLate ==
    << Field("Packet Late Arrival:", <<<<"7", "3", "0">>>>),
       Field("Packet Skipped:", <<<<"0">>>>) >>
LineSuccesses == << Field("Number of successes:", <<<<"6", "0">>>>) >>
LineFailures == << Field("Number of failures:", <<<<"1">>>>) >>
LineFailuresNeg == << Field("Number of failures:", <<<<"-", "5">>>>) >>

Lines ==
    { LineVoice, LineVoiceBad, LineVoiceCut, LineRtt, LineRttCut, LineOneway,
      LineThreshold, LineThresholdOver, LineJitterSD, LineJitterSDMin, LineJitterDS,
      LineLossSD, LineLossDS, LineOutOfSeq, LineOutOfSeqCut, LineLate, LineSuccesses,
      LineFailures, LineFailuresNeg }

RECURSIVE Flatten(_)
Flatten(ss) == IF ss = <<>> THEN <<>> ELSE Head(ss) \o Flatten(Tail(ss))

SeqsUpTo(S, n) == UNION { [1..k -> S] : k \in 0..n }

Block(ts, body) == <<Marker>> \o ts \o body

\* the field lines of the longer bodies
BodyLines ==
    { LineVoice, LineVoiceBad, LineRtt, LineJitterSD, LineOutOfSeq, LineOutOfSeqCut,
      LineSuccesses, LineFailuresNeg }

\* one-block texts: every timestamp line with at most one field line, and the
\* plain timestamp with up to MaxLines field lines
OneBlockTexts ==
    { Block(ts, Flatten(ls)) : ts \in TsLines, ls \in SeqsUpTo(Lines, 1) }
    \cup { Block(TsJan28, Flatten(ls)) : ls \in SeqsUpTo(BodyLines, MaxLines) }

\* texts of up to MaxBlocks pieces: blocks, after nothing or after a field line
\* that stands before the first marker
SomeBlocks ==
    { Block(TsJan28, LineVoice), Block(TsJan28, LineSuccesses),
      Block(TsJan28Early, LineLossDS), Block(TsFeb30, LineSuccesses),
      Block(TsJan28, LineVoiceBad), Block(TsShortClock, LineSuccesses) }

ManyBlockTexts ==
    { Flatten(bs) : bs \in SeqsUpTo(SomeBlocks, MaxBlocks) }
    \cup { LineFailures \o Flatten(bs) : bs \in SeqsUpTo(SomeBlocks, MaxBlocks - 1) }

Texts == OneBlockTexts \cup ManyBlockTexts

(***************************************************************************)
(* SpecParse: parse_content on one text, a block at a time.                *)
(***************************************************************************)
NoCall == [op |-> "none"]
NoFile == <<>>
NoSheets == <<>>

\* a parse_content call that has not returned yet
PendingCall(parser, text) ==
    [parser |-> parser, text |-> text, done |-> FALSE, records |-> <<>>]

InitParse ==
    /\ content \in Texts
    /\ blocks = <<>>
    /\ records = <<>>
    /\ pc = "start"
    /\ call = NoCall
    /\ data_sheet = <<>>
    /\ workbook = NoFile
    /\ history = <<PendingCall(1, content)>>
    /\ chart_sheets = NoSheets

\* the list of the call before is carried on: no 'records = []'
SplitKeepsRecords ==
    /\ pc = "start"
    /\ blocks' = re_split(content)
    /\ pc' = "loop"
    /\ UNCHANGED <<records, content, call, data_sheet, workbook, history, chart_sheets>>

\* the list is the instance's: self.records, as the call before on the same
\* instance left it
SplitOnSelfRecords ==
    /\ pc = "start"
    /\ blocks' = re_split(content)
    /\ LET self == history[Len(history)].parser
           mine == {i \in 1..(Len(history) - 1) : history[i].parser = self}
       IN  records' = IF mine = {} THEN <<>>
                      ELSE history[CHOOSE i \in mine : \A j \in mine : j <= i].records
    /\ pc' = "loop"
    /\ UNCHANGED <<content, call, data_sheet, workbook, history, chart_sheets>>

\* lines 173-176
Split ==
    /\ pc = "start"
    /\ blocks' = re_split(content)
    /\ records' = <<>>
    /\ pc' = "loop"
    /\ UNCHANGED <<content, call, data_sheet, workbook, history, chart_sheets>>

\* lines 178-185: one turn of the loop
LoopStep ==
    /\ pc = "loop"
    /\ blocks # <<>>
    /\ LET block == Head(blocks)
           result == _parse_block(block)
       IN  IF Skipped(block)
           THEN /\ call' = [op |-> "continue", block |-> block]
                /\ UNCHANGED <<records, pc>>
           ELSE /\ call' = [op |-> "_parse_block", block |-> block,
                            ret |-> result, before |-> Len(records)]
                /\ records' = Collect(records, result)
                /\ pc' = IF result.kind = "raise" THEN "raised" ELSE pc
    /\ blocks' = Tail(blocks)
    /\ UNCHANGED <<content, data_sheet, workbook, history, chart_sheets>>

\* lines 187-188
Return ==
    /\ pc = "loop"
    /\ blocks = <<>>
    /\ pc' = "done"
    /\ history' = [history EXCEPT ![Len(history)] =
                      [@ EXCEPT !.done = TRUE, !.records = records]]
    /\ UNCHANGED <<content, blocks, records, call, data_sheet, workbook, chart_sheets>>

NextParse == Split \/ LoopStep \/ Return

SpecParse == InitParse /\ [][NextParse]_vars

(***************************************************************************)
(* SpecCalls: parse_content called up to MaxCalls times, each call on any  *)
(* of the parser instances and on any of the texts.  An instance holds     *)
(* self.records (line 144), which no method reads or writes; 'records' is  *)
(* the list local to a call (line 173).                                    *)
(***************************************************************************)
Parsers == {1, 2}

CallTexts ==
    { <<>>, <<Blank>>, LineFailures,
      Block(TsJan28, LineVoice),
      <<Blank>> \o Block(TsJan28, LineRtt) \o Block(TsFeb30, LineRtt)
         \o Block(TsJan28Early, LineLossDS) }

InitCalls ==
    /\ pc = "idle"
    /\ content = <<>>
    /\ blocks = <<>>
    /\ records = <<>>
    /\ call = NoCall
    /\ history = <<>>
    /\ data_sheet = <<>>
    /\ workbook = NoFile
    /\ chart_sheets = NoSheets

\* a caller invokes parser.parse_content(text)
Call ==
    /\ pc \in {"idle", "done"}
    /\ Len(history) < MaxCalls
    /\ \E parser \in Parsers, text \in CallTexts :
         /\ content' = text
         /\ history' = Append(history, PendingCall(parser, text))
    /\ pc' = "start"
    /\ UNCHANGED <<blocks, records, call, data_sheet, workbook, chart_sheets>>

NextCalls == Call \/ Split \/ LoopStep \/ Return

SpecCalls == InitCalls /\ [][NextCalls]_vars

HasMarker(text) == \E i \in 1..Len(text) : text[i] = Marker

\* C11: parse_content on a text without the marker, the empty and the
\* whitespace-only text among them, raises nothing and returns the empty list.
C11_EmptyWithoutMarker ==
    ~HasMarker(content)
    => /\ pc # "raised"
       /\ pc = "done" => records = <<>>

C11_Witness ==
    /\ pc = "done"
    /\ content = <<Blank>>
    /\ Len(history) = 2
    /\ history[1].records # <<>>
    /\ history[2].done /\ history[2].records = <<>>

\* C18: two parse_content calls with the same text return the same Records in
\* the same order, on the same instance or on another, whatever was parsed in
\* between.
C18_Deterministic ==
    \A i, j \in 1..Len(history) :
        (history[i].done /\ history[j].done /\ history[i].text = history[j].text)
        => history[i].records = history[j].records

C18_Witness ==
    /\ Len(history) = 3
    /\ history[3].done
    /\ history[1].text = history[3].text
    /\ history[2].text # history[1].text
    /\ history[1].parser # history[3].parser
    /\ history[2].parser = history[3].parser
    /\ Len(history[3].records) = 2
    /\ history[2].records # <<>>

(***************************************************************************)
(* What the claims speak of, stated apart from the parser's own code.      *)
(***************************************************************************)
MonthNames ==
    <<"Jan", "Feb", "Mar", "Apr", "May", "Jun", "Jul", "Aug", "Sep", "Oct", "Nov", "Dec">>

MonthNumber(w) == CHOOSE n \in 1..12 : MonthNames[n] = w

\* the block opens with a timestamp line of the documented shape,
\* HH:MM:SS <tz> <weekday> <MonthName> <day> <year>, naming a date and a time
\* of day that exist
WellFormedTimestamp(block) ==
    /\ Len(block) >= 7
    /\ block[1] = Marker
    /\ block[2].k = "clock"
    /\ \A n \in 1..3 : Len(block[2].lits[n]) = 2 /\ FullIn(block[2].lits[n], Digits)
    /\ block[3].k = "word" /\ block[4].k = "word" /\ block[5].k = "word"
    /\ \E n \in 1..12 : MonthNames[n] = block[5].w
    /\ block[6].k = "digits" /\ block[7].k = "digits"
    /\ Len(block[7].lits[1]) = 4
    /\ IntOf(block[7].lits[1]) >= 1
    /\ IntOf(block[6].lits[1]) \in
          1..DaysInMonth(IntOf(block[7].lits[1]), MonthNumber(block[5].w))
    /\ IntOf(block[2].lits[1]) < 24
    /\ IntOf(block[2].lits[2]) < 60
    /\ IntOf(block[2].lits[3]) < 60

\* the timestamp of the block's year, month, day, hour, minute and second
BuiltTimestamp(block) ==
    << IntOf(block[7].lits[1]), MonthNumber(block[5].w), IntOf(block[6].lits[1]),
       IntOf(block[2].lits[1]), IntOf(block[2].lits[2]), IntOf(block[2].lits[3]) >>

\* a decimal literal Python's float() accepts: digits with at most one point
ValidDecimal(lit) ==
    /\ Cardinality({i \in 1..Len(lit) : lit[i] = "."}) <= 1
    /\ \E i \in 1..Len(lit) : lit[i] \in Digits

\* the voice scores the block holds, if any, are valid decimal literals
VoiceLiteralsValid(block) ==
    LET i == Search(block, PATTERNS.voice_scores)
    IN  i = 0 \/ \A j \in 0..3 : ValidDecimal(block[i + j].lits[1])

\* the last turn of the loop added exactly the record r to 'records'
AddedExactly(r) ==
    /\ Len(records) = call.before + 1
    /\ records[Len(records)] = r

\* the last turn of the loop added nothing to 'records'
AddedNothing == Len(records) = call.before

FloatFields == {"min_mos", "max_mos", "min_icpif", "max_icpif"}

GroupFields ==
    [ voice_scores |-> FloatFields,
      rtt_values |-> {"num_rtt", "rtt_min_ms", "rtt_avg_ms", "rtt_max_ms"},
      oneway_samples |-> {"num_oneway_samples"},
      rtt_threshold |-> {"rtt_over_threshold_count", "rtt_over_threshold_pct"},
      jitter_sd |-> {"jitter_sd_avg_ms", "jitter_sd_max_ms"},
      jitter_ds |-> {"jitter_ds_avg_ms", "jitter_ds_max_ms"},
      loss_sd |-> {"loss_sd"},
      loss_ds |-> {"loss_ds"},
      out_of_seq_tail |-> {"out_of_seq", "tail_drop"},
      late_arrival |-> {"packet_late_arrival"},
      successes |-> {"successes"},
      failures |-> {"failures"} ]

OptionalFields == UNION { GroupFields[g] : g \in GroupNames }

FieldZero(f) == IF f \in FloatFields THEN <<0, 0>> ELSE 0

\* the line of each group, as the router prints it
GroupLine ==
    [ voice_scores |-> LineVoice, rtt_values |-> LineRtt, oneway_samples |-> LineOneway,
      rtt_threshold |-> LineThreshold, jitter_sd |-> LineJitterSD,
      jitter_ds |-> LineJitterDS, loss_sd |-> LineLossSD, loss_ds |-> LineLossDS,
      out_of_seq_tail |-> LineOutOfSeq, late_arrival |-> LineLate,
      successes |-> LineSuccesses, failures |-> LineFailures ]

\* the block with a line added after its last line, or after its timestamp line
WithLineAdded(block, line) ==
    { block \o line, SubSeq(block, 1, 7) \o line \o SubSeq(block, 8, Len(block)) }

\* the blocks of the text that the loop hands to _parse_block
Visited(bs) == { j \in 1..Len(bs) : ~Skipped(bs[j]) }

\* the blocks of the text that yield a Record
Good(bs) == { j \in Visited(bs) : _parse_block(bs[j]).kind = "record" }

\* the blocks whose processing raises an exception
Raising(bs) == { j \in Visited(bs) : TryParseBlock(bs[j]).kind = "raise" }

\* the blocks that open with the marker but not with a matching timestamp
Unmatched(bs) == { j \in Visited(bs) : bs[j][1] = Marker /\ SearchStartTime(bs[j]) = 0 }

\* the i-th smallest member of a set of positions
NthOf(S, i) == CHOOSE j \in S : Cardinality({k \in S : k < j}) = i - 1

\* the sequence bs without the positions of the set
RECURSIVE DropFrom(_, _, _)
DropFrom(bs, drop, j) ==
    IF j > Len(bs) THEN <<>>
    ELSE (IF j \in drop THEN <<>> ELSE <<bs[j]>>) \o DropFrom(bs, drop, j + 1)

Without(bs, drop) == DropFrom(bs, drop, 1)

(***************************************************************************)
(* C5 - C10: the extractor, under SpecParse.                               *)
(***************************************************************************)
\* C5 (as claimed): every block that holds a well-formed timestamp line yields
\* exactly one Record, whose start_time is the timestamp built from the block's
\* year, month, day, hour, minute and second.
C5_AsClaimed ==
    (call.op = "_parse_block" /\ WellFormedTimestamp(call.block))
    => /\ call.ret.kind = "record"
       /\ call.ret.rec.start_time = BuiltTimestamp(call.block)
       /\ AddedExactly(call.ret.rec)

\* C5 (amended): every block that holds a well-formed timestamp line and whose
\* voice scores, where present, are valid decimal literals yields exactly one
\* Record, whose start_time is the timestamp built from the block's year, month,
\* day, hour, minute and second.
C5_OneRecordPerValidBlock ==
    (/\ call.op = "_parse_block"
     /\ WellFormedTimestamp(call.block)
     /\ VoiceLiteralsValid(call.block))
    => /\ call.ret.kind = "record"
       /\ call.ret.rec.start_time = BuiltTimestamp(call.block)
       /\ AddedExactly(call.ret.rec)

C5_Witness ==
    /\ call.op = "_parse_block"
    /\ call.block = Block(TsDec31, LineVoice)
    /\ call.ret.kind = "record"
    /\ call.ret.rec.start_time = <<2026, 12, 31, 23, 59, 59>>
    /\ records = <<call.ret.rec>>

\* C6: in the Record of a block, every field of a group whose pattern is absent
\* from the block is exactly zero, and the fields of the other groups (and
\* start_time) are what they are in the Record of the same block with the
\* group's line present.
C6_DefaultToZeroPerGroup ==
    (call.op = "_parse_block" /\ call.ret.kind = "record")
    => \A g \in GroupNames :
         Search(call.block, PATTERNS[g]) = 0
         => /\ \A f \in GroupFields[g] : call.ret.rec[f] = FieldZero(f)
            /\ \A b \in WithLineAdded(call.block, GroupLine[g]) :
                 LET with == _parse_block(b)
                 IN  /\ with.kind = "record"
                     /\ with.rec.start_time = call.ret.rec.start_time
                     /\ \A f \in OptionalFields \ GroupFields[g] :
                          with.rec[f] = call.ret.rec[f]
                     /\ \E f \in GroupFields[g] : with.rec[f] # FieldZero(f)

C6_Witness ==
    /\ call.op = "_parse_block"
    /\ call.block = Block(TsJan28, LineRtt \o LineSuccesses)
    /\ call.ret.kind = "record"
    /\ call.ret.rec.min_mos = <<0, 0>>
    /\ call.ret.rec.jitter_sd_max_ms = 0
    /\ call.ret.rec.num_rtt = 59109
    /\ call.ret.rec.successes = 60

\* the result of _parse_block on each block of the text
Results(bs) == [j \in 1..Len(bs) |-> IF Skipped(bs[j]) THEN NoneResult ELSE _parse_block(bs[j])]

\* C7: the Records of a text stand in the order of the blocks they come from:
\* the i-th Record is the Record of the i-th block that yields one.
C7_OrderPreserving ==
    pc = "done"
    => LET bs == re_split(content)
           res == Results(bs)
           good == { j \in 1..Len(bs) : res[j].kind = "record" }
       IN  /\ Len(records) = Cardinality(good)
           /\ \A i \in 1..Len(records) : records[i] = res[NthOf(good, i)].rec

C7_Witness ==
    /\ pc = "done"
    /\ Len(records) = 2
    /\ DtLess(records[2].start_time, records[1].start_time)
    /\ \E j \in 1..Len(re_split(content)) :
         /\ j \notin Good(re_split(content))
         /\ \E i, k \in Good(re_split(content)) : i < j /\ j < k

\* C8: there are as many Records as blocks that parse, and two blocks that parse
\* each have their own Record, at two places of the result, also when their
\* timestamps are the same.
C8_NoDeduplication ==
    pc = "done"
    => LET bs == re_split(content)
           res == Results(bs)
           good == { j \in 1..Len(bs) : res[j].kind = "record" }
       IN  /\ Len(records) = Cardinality(good)
           /\ \A i, j \in good :
                i < j
                => \E p, q \in 1..Len(records) :
                     /\ p < q
                     /\ records[p] = res[i].rec
                     /\ records[q] = res[j].rec

C8_Witness ==
    /\ pc = "done"
    /\ Len(records) = 2
    /\ records[1].start_time = records[2].start_time
    /\ records[1] # records[2]

\* C9: parse_content raises nothing; a block whose processing raises yields no
\* Record; and the Records of the text are those of the text without the blocks
\* that raise.
C9_PartialFailureIsolation ==
    /\ pc # "raised"
    /\ (call.op = "_parse_block" /\ TryParseBlock(call.block).kind = "raise")
       => (call.ret.kind = "none" /\ AddedNothing)
    /\ pc = "done"
       => LET bs == re_split(content)
          IN  records = ParseBlocks(Without(bs, Raising(bs)), <<>>)

C9_Witness ==
    /\ pc = "done"
    /\ records # <<>>
    /\ \E i, j, k \in 1..Len(re_split(content)) :
         /\ i < j /\ j < k
         /\ i \in Raising(re_split(content))
         /\ j \in Good(re_split(content))
         /\ re_split(content)[k] = Block(TsJan28, LineVoiceBad)

\* C10: a block that opens with the marker but whose timestamp does not match
\* the pattern yields no Record, and the Records of the text are those of the
\* text without such blocks.
C10_NoRecordWithoutTimestamp ==
    /\ (/\ call.op = "_parse_block"
        /\ call.block[1] = Marker
        /\ SearchStartTime(call.block) = 0)
       => (call.ret.kind = "none" /\ AddedNothing)
    /\ pc = "done"
       => LET bs == re_split(content)
              kept == Without(bs, Unmatched(bs))
              res == Results(kept)
          IN  /\ records = ParseBlocks(kept, <<>>)
              /\ \A i \in 1..Len(records) :
                   \E j \in 1..Len(kept) :
                     res[j].kind = "record" /\ records[i] = res[j].rec

C10_Witness ==
    /\ pc = "done"
    /\ Len(records) = 2
    /\ \E i, j, k \in 1..Len(re_split(content)) :
         /\ i < j /\ j < k
         /\ i \in Good(re_split(content))
         /\ j \in Unmatched(re_split(content))
         /\ k \in Good(re_split(content))

\* the block of the scenario: the timestamp line, the voice scores, the RTT line
ScenarioBlock == Block(TsJan28, LineVoice \o LineRtt)

\* C12: the block 'Start Time Index: 09:28:16 EST Wed Jan 28 2026', 'MinOfICPIF: 1
\* MaxOfICPIF: 77 MinOfMOS: 1.51 MaxOfMOS: 4.34', 'Number Of RTT: 59109 RTT
\* Min/Avg/Max: 8/120/2332' yields exactly one Record, with start_time 2026-01-28
\* 09:28:16, min_icpif 1.0, max_icpif 77.0, min_mos 1.51, max_mos 4.34, num_rtt
\* 59109, rtt_min_ms 8, rtt_avg_ms 120, rtt_max_ms 2332 and every other field 0.
C12_ConcreteScenario ==
    (call.op = "_parse_block" /\ call.block = ScenarioBlock)
    => /\ call.ret.kind = "record"
       /\ AddedExactly(call.ret.rec)
       /\ LET r == call.ret.rec
          IN  /\ r.start_time = <<2026, 1, 28, 9, 28, 16>>
              /\ r.min_icpif = <<1, 0>> /\ r.max_icpif = <<77, 0>>
              /\ r.min_mos = <<151, 2>> /\ r.max_mos = <<434, 2>>
              /\ r.num_rtt = 59109
              /\ r.rtt_min_ms = 8 /\ r.rtt_avg_ms = 120 /\ r.rtt_max_ms = 2332
              /\ \A f \in OptionalFields \
                    (GroupFields.voice_scores \cup GroupFields.rtt_values) : r[f] = 0

C12_Witness ==
    /\ call.op = "_parse_block"
    /\ call.block = ScenarioBlock
    /\ content = ScenarioBlock
    /\ Len(records) = 1
    /\ records[1].num_rtt = 59109

\* the number a literal of the report writes: digits, with a sign or without
Written(lit) ==
    IF lit # <<>> /\ lit[1] = "-" THEN 0 - IntOf(Tail(lit)) ELSE IntOf(lit)

\* the token of the block that carries the label
LabelAt(block, label) ==
    {i \in 1..Len(block) : block[i].k = "field" /\ block[i].w = label}

\* C14 (as claimed): a percentage above 100 and a negative count written in a
\* block are in its Record with exactly the value written.
C14_AsClaimed ==
    (call.op = "_parse_block" /\ call.ret.kind = "record")
    => /\ \A i \in LabelAt(call.block, "Number Of RTT Over Threshold:") :
            call.ret.rec.rtt_over_threshold_pct = Written(call.block[i].lits[2])
       /\ \A i \in LabelAt(call.block, "Number of failures:") :
            call.ret.rec.failures = Written(call.block[i].lits[1])

\* C21 (as claimed): the month of a Record's start_time is the number the
\* 12-entry table gives for the month token of the block's timestamp line; a
\* block whose month token is not in the table yields no Record.
C21_AsClaimed ==
    (call.op = "_parse_block" /\ call.ret.kind = "record")
    => LET month_tok == call.block[SearchStartTime(call.block) + 4]
       IN  /\ month_tok.k = "word"
           /\ \E n \in 1..12 : MonthNames[n] = month_tok.w
           /\ call.ret.rec.start_time[2] = MonthNumber(month_tok.w)

(***************************************************************************)
(* SpecBlocks: parse_content, a block at a time as in SpecParse, on texts  *)
(* that vary one part of a block at a time: the timezone and the weekday   *)
(* of the timestamp line, a line of a combined group cut short, the        *)
(* minimum of a jitter line, and what stands before and between markers.   *)
(***************************************************************************)
MaxPieces == 3

LineRttTail ==
    << Field("RTT Min/Avg/Max:", <<<<"8">>, <<"1", "2", "0">>, <<"2", "3", "3", "2">>>>),
       Junk("milliseconds") >>
LineThresholdCut == << Field("Number Of RTT Over Threshold:", <<<<"9", "5", "2", "8">>>>) >>
LineTailDrop == << Field("Tail Drop:", <<<<"3", "9">>>>) >>
LineJitterDSMin ==
    << Field("Destination to Source Jitter Min/Avg/Max:",
             <<<<"3">>, <<"4">>, <<"6", "4">>>>), Junk("milliseconds") >>

TsDec31Utc == Ts(<<"2", "3">>, <<"5", "9">>, <<"5", "9">>, "UTC", "Sun", "Dec", <<"3", "1">>, Y2026)

\* timestamp lines that differ in the timezone and the weekday alone, and others
TimestampTexts ==
    { Block(ts, body) :
        ts \in {TsJan28, TsJan28Utc, TsDec31, TsDec31Utc, TsLeapDay, TsJun5, TsFoo, TsFeb29},
        body \in {<<>>, LineVoice, LineRtt \o LineJitterSD \o LineFailures} }

GroupLines ==
    { LineVoice, LineVoiceCut, LineRtt, LineRttCut, LineRttTail, LineThreshold,
      LineThresholdCut, LineOutOfSeq, LineOutOfSeqCut, LineTailDrop, LineJitterSD,
      LineJitterSDMin, LineJitterDS, LineJitterDSMin }

\* one block of a first and a second line, each whole, cut short or not there
GroupTexts == { Block(TsJan28, first \o second) : first, second \in GroupLines \cup {<<>>} }

Pieces ==
    { Block(TsJan28, LineVoice),
      Block(TsLeapDay, LineRtt \o LineLossSD), Block(TsNone, LineSuccesses), <<Marker>> }

\* up to MaxPieces blocks, after nothing, after a field line, or after a blank
\* line and a field line
PieceTexts ==
    { lead \o Flatten(bs) :
        lead \in {<<>>, LineRtt, <<Blank>> \o LineOutOfSeq \o LineSuccesses},
        bs \in SeqsUpTo(Pieces, MaxPieces) }

BlockTexts == TimestampTexts \cup GroupTexts \cup PieceTexts

InitBlocks ==
    /\ content \in BlockTexts
    /\ blocks = <<>>
    /\ records = <<>>
    /\ pc = "start"
    /\ call = NoCall
    /\ data_sheet = <<>>
    /\ workbook = NoFile
    /\ history = <<PendingCall(1, content)>>
    /\ chart_sheets = NoSheets

SpecBlocks == InitBlocks /\ [][NextParse]_vars

\* the timezone and weekday tokens a timestamp line may carry: the weekdays
\* need not be that of the date
Timezones == {Word("EST"), Word("UTC"), Word("PDT"), Number(<<"5">>)}
Weekdays == {Word("Wed"), Word("Mon"), Word("Sun"), Word("Feb")}

\* the block with its timezone and weekday tokens replaced
Rezoned(block, tz, dow) == [block EXCEPT ![3] = tz, ![4] = dow]

\* C22: two blocks that differ in the timezone token and the weekday token of
\* the timestamp line alone yield the same result: Records equal in every
\* field, start_time included, or no Record for either.
C22_WeekdayTimezoneIgnored ==
    (call.op = "_parse_block" /\ SearchStartTime(call.block) = 1)
    => \A tz \in Timezones, dow \in Weekdays :
         _parse_block(Rezoned(call.block, tz, dow)) = call.ret

C22_Witness ==
    /\ call.op = "_parse_block"
    /\ call.block = Block(TsDec31Utc, LineVoice)
    /\ call.ret.kind = "record"
    /\ call.ret = _parse_block(Block(TsDec31, LineVoice))
    /\ call.ret.rec.start_time = <<2026, 12, 31, 23, 59, 59>>

\* the places of the markers in the text, and the text from the k-th marker up
\* to the next marker or the end of the text
MarkerPlaces(text) == { i \in 1..Len(text) : text[i] = Marker }

OwnText(text, k) ==
    LET ms == MarkerPlaces(text)
        from == NthOf(ms, k)
        to == IF k < Cardinality(ms) THEN NthOf(ms, k + 1) - 1 ELSE Len(text)
    IN  SubSeq(text, from, to)

\* the Records of the texts of the markers k.., each text parsed on its own
RECURSIVE OwnRecords(_, _)
OwnRecords(text, k) ==
    IF k > Cardinality(MarkerPlaces(text)) THEN <<>>
    ELSE LET own == _parse_block(OwnText(text, k))
         IN  (IF own.kind = "record" THEN <<own.rec>> ELSE <<>>)
             \o OwnRecords(text, k + 1)

\* C23: every block handed to _parse_block is the text from one marker up to
\* the next marker or the end of the text; what stands before the first marker
\* is passed over; and the Records of the text are, in order, the Records of
\* each marker's own text parsed alone, so that no line outside a marker's own
\* text sets a field of its Record.
C23_BlockAttribution ==
    /\ call.op = "_parse_block"
       => \E k \in 1..Cardinality(MarkerPlaces(content)) :
            call.block = OwnText(content, k)
    /\ call.op = "continue"
       => \A i \in 1..Len(call.block) : call.block[i] # Marker
    /\ pc = "done" => records = OwnRecords(content, 1)

C23_Witness ==
    /\ pc = "done"
    /\ content = LineRtt \o Block(TsJan28, LineVoice) \o Block(TsNone, LineSuccesses)
                     \o Block(TsLeapDay, LineRtt \o LineLossSD)
    /\ Len(records) = 2
    /\ records[1].num_rtt = 0 /\ records[1].successes = 0 /\ records[1].loss_sd = 0
    /\ records[1].max_mos = <<434, 2>>
    /\ records[2].num_rtt = 59109 /\ records[2].loss_sd = 7
    /\ records[2].max_mos = <<0, 0>> /\ records[2].successes = 0

\* the groups whose pattern joins several values
CombinedGroups == {"voice_scores", "rtt_values", "rtt_threshold", "out_of_seq_tail"}

\* the block without the tokens that carry a label of the group
Stripped(block, g) ==
    LET Foreign(tok) ==
            ~(tok.k = "field" /\ \E j \in 1..Len(PATTERNS[g].labels) :
                                    tok.w = PATTERNS[g].labels[j])
    IN  SelectSeq(block, Foreign)

\* C24: in the Record of a block, a combined group (voice scores, RTT, RTT
\* over threshold, out of sequence + tail drop) whose pattern does not match as
\* a whole has every field 0, also when a part of its line is in the block:
\* the Record is that of the block without the group's labels.
C24_GroupsAllOrNothing ==
    (call.op = "_parse_block" /\ call.ret.kind = "record")
    => \A g \in CombinedGroups :
         Search(call.block, PATTERNS[g]) = 0
         => /\ \A f \in GroupFields[g] : call.ret.rec[f] = FieldZero(f)
            /\ _parse_block(Stripped(call.block, g)) = call.ret

C24_Witness ==
    /\ call.op = "_parse_block"
    /\ call.block = Block(TsJan28, LineOutOfSeqCut \o LineRtt)
    /\ call.ret.kind = "record"
    /\ call.ret.rec.out_of_seq = 0
    /\ call.ret.rec.tail_drop = 0
    /\ call.ret.rec.rtt_max_ms = 2332

\* the jitter minimum a line may carry
JitterMinima == { <<"0">>, <<"3">>, <<"9", "9", "9">> }

\* the block with the first value of the token at i replaced
WithMin(block, i, a) == [block EXCEPT ![i].lits[1] = a]

\* the avg and max fields of the two directions
JitterFields ==
    [ jitter_sd |-> <<"jitter_sd_avg_ms", "jitter_sd_max_ms">>,
      jitter_ds |-> <<"jitter_ds_avg_ms", "jitter_ds_max_ms">> ]

\* C25: for each direction, a jitter line 'Min/Avg/Max: a/b/c' sets the avg
\* field of the Record to b and the max field to c, and the block with any
\* other minimum a yields the same Record.
C25_JitterMinDiscarded ==
    (call.op = "_parse_block" /\ call.ret.kind = "record")
    => \A g \in {"jitter_sd", "jitter_ds"} :
         LET i == Search(call.block, PATTERNS[g])
         IN  i # 0
             => /\ call.ret.rec[JitterFields[g][1]] = IntOf(call.block[i].lits[2])
                /\ call.ret.rec[JitterFields[g][2]] = IntOf(call.block[i].lits[3])
                /\ \A a \in JitterMinima :
                     _parse_block(WithMin(call.block, i, a)) = call.ret

C25_Witness ==
    /\ call.op = "_parse_block"
    /\ call.block = Block(TsJan28, LineJitterSDMin \o LineJitterDSMin)
    /\ call.ret = _parse_block(Block(TsJan28, LineJitterSD \o LineJitterDS))
    /\ call.ret.rec.jitter_sd_avg_ms = 5 /\ call.ret.rec.jitter_sd_max_ms = 468
    /\ call.ret.rec.jitter_ds_avg_ms = 4 /\ call.ret.rec.jitter_ds_max_ms = 64

(***************************************************************************)
(* SpecStore: one ExcelHandler, opened on no file, on which append_records *)
(* and sort_by_timestamp are called in any order.  The batches are drawn   *)
(* from Records of three timestamps, with two Records of differing field   *)
(* values for the first of them.                                           *)
(***************************************************************************)
StoreTime1 == <<2026, 1, 28, 9, 28, 16>>
StoreTimes == { StoreTime1, <<2026, 1, 28, 8, 28, 16>>, <<2026, 2, 1, 0, 0, 0>> }

SampleRecord(t, k) ==
    IPSLARecord(t, <<k, 0>>, <<41 + k, 1>>, <<k, 0>>, <<70 + k, 0>>, 100 * k,
                k, 10 + k, 20 + k, 30 + k, 40 + k, 50 + k, 60 + k, 70 + k,
                80 + k, 90 + k, 100 + k, 110 + k, 120 + k, 130 + k, 140 + k,
                150 + k, 160 + k)

StoreRecords ==
    { SampleRecord(t, 1) : t \in StoreTimes } \cup { SampleRecord(StoreTime1, 2) }

Batches == SeqsUpTo(StoreRecords, MaxBatch)

InitStore ==
    /\ data_sheet = NewSheet
    /\ call = NoCall
    /\ content = <<>>
    /\ blocks = <<>>
    /\ records = <<>>
    /\ pc = "idle"
    /\ workbook = NoFile
    /\ history = <<>>
    /\ chart_sheets = NoSheets

AppendRecords ==
    /\ \E batch \in Batches :
         LET r == append_records(data_sheet, batch)
         IN  /\ data_sheet' = r.sheet
             /\ call' = [op |-> "append_records", batch |-> batch,
                         added |-> r.added, skipped |-> r.skipped,
                         before |-> data_sheet,
                         repeat |-> (call.op = "append_records" /\ call.batch = batch)]
    /\ UNCHANGED <<content, blocks, records, pc, workbook, history, chart_sheets>>

SortByTimestamp ==
    /\ data_sheet' = sort_by_timestamp(data_sheet)
    /\ call' = [op |-> "sort_by_timestamp", batch |-> <<>>, added |-> 0,
                skipped |-> 0, before |-> data_sheet,
                repeat |-> (call.op = "sort_by_timestamp")]
    /\ UNCHANGED <<content, blocks, records, pc, workbook, history, chart_sheets>>

NextStore == AppendRecords \/ SortByTimestamp

SpecStore == InitStore /\ [][NextStore]_vars

\* the rows of a sheet that hold a record: rows 2.. whose first cell has a value
StoredRows(sheet) == { i \in 2..Len(sheet) : sheet[i][1] # None }

\* the start_time values a sheet holds
StoredKeys(sheet) == { sheet[i][1] : i \in StoredRows(sheet) }

\* the first record of a batch with the start_time t
FirstWith(batch, t) ==
    batch[CHOOSE i \in 1..Len(batch) :
            /\ batch[i].start_time = t
            /\ \A j \in 1..(i - 1) : batch[j].start_time # t]

(***************************************************************************)
(* C1 - C3: the store, under SpecStore.                                    *)
(***************************************************************************)
\* C1: no two stored data rows have the same start_time.
C1_KeysUnique ==
    \A i, j \in StoredRows(data_sheet) :
        i # j => data_sheet[i][1] # data_sheet[j][1]

C1_Witness ==
    /\ call.op = "append_records"
    /\ Len(call.batch) = 2
    /\ call.batch[1].start_time = call.batch[2].start_time
    /\ call.added = 1
    /\ call.skipped = 1
    /\ Cardinality(StoredRows(data_sheet)) = 3

\* C2: after append_records every row stored before the call is unchanged, and
\* the row of a start_time new to the store is the row of the first record of
\* the batch that has it.
C2_FirstWins ==
    call.op = "append_records"
    => /\ \A i \in StoredRows(call.before) : data_sheet[i] = call.before[i]
       /\ \A i \in StoredRows(data_sheet) :
            \/ i \in StoredRows(call.before)
            \/ /\ data_sheet[i][1] \notin StoredKeys(call.before)
               /\ data_sheet[i] = to_row(FirstWith(call.batch, data_sheet[i][1].v))

C2_Witness ==
    /\ call.op = "append_records"
    /\ Len(call.batch) = 2
    /\ DtCell(call.batch[1].start_time) \in StoredKeys(call.before)
    /\ \A i \in StoredRows(data_sheet) : data_sheet[i] # to_row(call.batch[1])
    /\ call.batch[2].start_time = call.batch[1].start_time
    /\ call.batch[2] # call.batch[1]
    /\ call.skipped = 2

\* C3: a call of append_records with the batch of the call just before it adds
\* nothing, skips the whole batch and leaves the number of stored rows as it was.
C3_Idempotent ==
    (call.op = "append_records" /\ call.repeat)
    => /\ call.added = 0
       /\ call.skipped = Len(call.batch)
       /\ Cardinality(StoredRows(data_sheet)) = Cardinality(StoredRows(call.before))

C3_Witness ==
    /\ call.op = "append_records"
    /\ call.repeat
    /\ Len(call.batch) = 2
    /\ call.batch[1].start_time # call.batch[2].start_time
    /\ call.skipped = 2
    /\ data_sheet = call.before

\* C20: in every state append_records and sort_by_timestamp reach,
\* get_existing_timestamps returns the start_time values of the stored data
\* rows: all of them, each once, and nothing else.
C20_ExistingTimestampsExact ==
    LET timestamps == get_existing_timestamps(data_sheet)
    IN  /\ \A i \in StoredRows(data_sheet) : data_sheet[i][1].v \in timestamps
        /\ \A t \in timestamps :
              \E i \in StoredRows(data_sheet) : data_sheet[i][1] = DtCell(t)
        /\ Cardinality(timestamps) = Cardinality(StoredRows(data_sheet))

C20_Witness ==
    /\ call.op = "sort_by_timestamp"
    /\ Len(data_sheet) = 4
    /\ get_existing_timestamps(data_sheet) = StoreTimes
    /\ data_sheet[4][1] = DtCell(<<2026, 2, 1, 0, 0, 0>>)

\* C26: a call of append_records on a batch of n records returns (added,
\* skipped) with added + skipped = n; the store has exactly added data rows
\* more than before; and added is the number of distinct start_time values of
\* the batch that were not stored before the call.
C26_AppendAccounting ==
    call.op = "append_records"
    => /\ call.added + call.skipped = Len(call.batch)
       /\ Cardinality(StoredRows(data_sheet))
              = Cardinality(StoredRows(call.before)) + call.added
       /\ call.added
              = Cardinality({ DtCell(call.batch[i].start_time) : i \in 1..Len(call.batch) }
                                \ StoredKeys(call.before))

C26_Witness ==
    /\ call.op = "append_records"
    /\ Len(call.batch) = 2
    /\ DtCell(call.batch[1].start_time) \in StoredKeys(call.before)
    /\ DtCell(call.batch[2].start_time) \notin StoredKeys(call.before)
    /\ call.added = 1
    /\ call.skipped = 1
    /\ Cardinality(StoredRows(call.before)) = 2
    /\ Cardinality(StoredRows(data_sheet)) = 3

\* how often the row stands among the data rows of the sheet
RowCount(sheet, row) == Cardinality({ i \in 2..Len(sheet) : sheet[i] = row })

\* C28: sort_by_timestamp leaves the header row as it was and the data rows
\* the same multiset: every row stored before is stored after as often as
\* before, with its 23 values, and no other row is; a second call right after
\* the first changes nothing.
C28_SortIsReordering ==
    call.op = "sort_by_timestamp"
    => /\ data_sheet[1] = call.before[1]
       /\ Cardinality(StoredRows(data_sheet)) = Cardinality(StoredRows(call.before))
       /\ \A i \in StoredRows(call.before) :
            RowCount(data_sheet, call.before[i]) = RowCount(call.before, call.before[i])
       /\ \A i \in StoredRows(data_sheet) :
            RowCount(call.before, data_sheet[i]) = RowCount(data_sheet, data_sheet[i])
       /\ call.repeat => data_sheet = call.before

C28_Witness ==
    /\ call.op = "sort_by_timestamp"
    /\ Cardinality(StoredRows(call.before)) = 3
    /\ data_sheet # call.before
    /\ data_sheet[2] = call.before[4]
    /\ data_sheet[4] = call.before[3]

(***************************************************************************)
(* Spec: the program.  src/main.py, ingest_file: the files of the input    *)
(* directory are ingested in any order, any number of times; the workbook  *)
(* file is what one call leaves to the next.                               *)
(***************************************************************************)
\* A cell of the workbook file.  The file has one kind of number: an int or a
\* float cell is written as its number, and read back as a Python number of that
\* value (int or float, which compare equal).  A datetime is written as a serial
\* number with a date format and read back as the same datetime, to the second.
NumCell(x) == [t |-> "number", v |-> x]

SavedCell(c) ==
    IF c.t = "int" THEN NumCell(<<c.v, 0>>)
    ELSE IF c.t = "float" THEN NumCell(c.v)
    ELSE c

\* Workbook() whatever the file holds: the rows of the file are not loaded
open_or_create_always_new(file) == NewSheet

\* ExcelHandler.open_or_create: load the workbook file, or a new sheet with headers
open_or_create(file) == IF file = NoFile THEN NewSheet ELSE file

\* ExcelHandler.save: the rows of the sheet, written to the workbook file
save(sheet) == [i \in 1..Len(sheet) |-> [c \in 1..Len(sheet[i]) |-> SavedCell(sheet[i][c])]]

\* ExcelHandler.get_all_data: the values of every row, the header row first
get_all_data(sheet) == [i \in 1..Len(sheet) |-> sheet[i]]

InputFile(name, exists, readable, text) ==
    [name |-> name, exists |-> exists, readable |-> readable, text |-> text]

\* IPSLAParser.parse_file: open() raises on a file that cannot be read
parse_file(f) ==
    IF ~f.readable THEN [raised |-> TRUE, records |-> <<>>]
    ELSE [raised |-> FALSE, records |-> parse_content(f.text)]

\* a block with a line of every group, no two of its values alike
FullBlock ==
    Block(TsLeapDay,
          << Field("MinOfICPIF:", <<<<"1", "1">>>>), Field("MaxOfICPIF:", <<<<"7", "7">>>>),
             Field("MinOfMOS:", <<<<"1", ".", "5", "1">>>>),
             Field("MaxOfMOS:", <<<<"4", ".", "3", "4">>>>) >>
          \o LineRtt \o LineOneway \o LineThreshold \o LineJitterSDMin \o LineJitterDS
          \o LineLossSD \o LineLossDS
          \o << Field("Out Of Sequence:", <<<<"6">>>>), Field("Tail Drop:", <<<<"3", "9">>>>) >>
          \o LineLate \o LineSuccesses
          \o << Field("Number of failures:", <<<<"2">>>>) >>)

\* the files of the input directory
InputFiles ==
    { InputFile("a.txt", TRUE, TRUE,
                Block(TsJan28, LineVoice) \o Block(TsJan28Early, LineLossDS)),
      InputFile("b.txt", TRUE, TRUE,
                Block(TsJan28, LineSuccesses) \o Block(TsDec31, LineRtt)),
      InputFile("c.txt", TRUE, TRUE,
                LineFailures \o Block(TsShortClock, LineRtt) \o Block(TsFeb30, LineRtt)),
      InputFile("d.txt", TRUE, TRUE,
                Block(TsJun5, LineRtt) \o Block(TsJan28Early, LineVoice)
                \o Block(TsJun5, LineLate)),
      InputFile("e.txt", TRUE, TRUE,
                Block(TsDec31, LineOutOfSeq) \o FullBlock),
      InputFile("missing.txt", FALSE, FALSE, <<>>),
      InputFile("b_unreadable.txt", TRUE, FALSE, <<>>) }

\* parse_file of each file of the directory (a file's text does not change)
ParsedFiles == [f \in InputFiles |-> parse_file(f)]

\* lines 56-58 left out: a missing file goes on to parse_file, where open() raises
ingest_file_unchecked(f, file) ==
    LET parsed == IF f.exists THEN ParsedFiles[f] ELSE [raised |-> TRUE, records |-> <<>>]
        opened == open_or_create(file)
        appended == append_records(opened, parsed.records)
        sorted == sort_by_timestamp(appended.sheet)
    IN  IF parsed.raised
        THEN [workbook |-> file, added |-> 0, skipped |-> 0, raised |-> TRUE]
        ELSE IF parsed.records = <<>>
        THEN [workbook |-> file, added |-> 0, skipped |-> 0, raised |-> FALSE]
        ELSE [workbook |-> save(sorted), added |-> appended.added,
              skipped |-> appended.skipped, raised |-> FALSE]

\* ingest_file: the workbook file after the call, what it returned, and whether
\* an exception left it
ingest_file(f, file) ==
    LET parsed == ParsedFiles[f]
        opened == open_or_create(file)
        appended == append_records(opened, parsed.records)
        sorted == sort_by_timestamp(appended.sheet)
    IN  IF ~f.exists
        THEN [workbook |-> file, added |-> 0, skipped |-> 0, raised |-> FALSE]
        ELSE IF parsed.raised
        THEN [workbook |-> file, added |-> 0, skipped |-> 0, raised |-> TRUE]
        ELSE IF parsed.records = <<>>
        THEN [workbook |-> file, added |-> 0, skipped |-> 0, raised |-> FALSE]
        ELSE [workbook |-> save(sorted), added |-> appended.added,
              skipped |-> appended.skipped, raised |-> FALSE]

(***************************************************************************)
(* src/main.py, ingest_all_files: the .txt files of the input directory,   *)
(* in sorted order.                                                        *)
(***************************************************************************)
\* sorted(files): the names of InputFiles in ascending order
SortedNames == <<"a.txt", "b.txt", "b_unreadable.txt", "c.txt", "d.txt", "e.txt">>

FileNamed(name) == CHOOSE f \in InputFiles : f.name = name

\* sorted(files) of the files glob found
Sorted(dir) ==
    LET IsIn(name) == \E f \in dir : f.name = name
        names == SelectSeq(SortedNames, IsIn)
    IN  [i \in 1..Len(names) |-> FileNamed(names[i])]

\* the loop with every file ingested into the store as it was at the start of
\* the run: what a file added is not there when the next file is ingested
RECURSIVE IngestLoopFromSameStore(_, _, _, _, _)
IngestLoopFromSameStore(files, i, file, total_added, total_skipped) ==
    IF i > Len(files)
    THEN [workbook |-> file, added |-> total_added, skipped |-> total_skipped,
          raised |-> FALSE, done |-> i - 1]
    ELSE CHOOSE out \in
            { IF r.raised
              THEN [workbook |-> r.workbook, added |-> total_added,
                    skipped |-> total_skipped, raised |-> TRUE, done |-> i - 1]
              ELSE IF i = Len(files)
              THEN [workbook |-> r.workbook, added |-> total_added + r.added,
                    skipped |-> total_skipped + r.skipped, raised |-> FALSE, done |-> i]
              ELSE IngestLoopFromSameStore(files, i + 1, file, total_added + r.added,
                                           total_skipped + r.skipped)
              : r \in {ingest_file(files[i], file)} } : TRUE

\* lines 107-110: the loop; an exception of ingest_file leaves it at once
\* (r ranges over the one result of ingest_file, so it is computed once)
RECURSIVE IngestLoop(_, _, _, _, _)
IngestLoop(files, i, file, total_added, total_skipped) ==
    IF i > Len(files)
    THEN [workbook |-> file, added |-> total_added, skipped |-> total_skipped,
          raised |-> FALSE, done |-> i - 1]
    ELSE CHOOSE out \in
            { IF r.raised
              THEN [workbook |-> r.workbook, added |-> total_added,
                    skipped |-> total_skipped, raised |-> TRUE, done |-> i - 1]
              ELSE IngestLoop(files, i + 1, r.workbook, total_added + r.added,
                              total_skipped + r.skipped)
              : r \in {ingest_file(files[i], file)} } : TRUE

\* ingest_all_files on the directory holding the files dir
ingest_all_files(dir, file) ==
    IF dir = {}
    THEN [workbook |-> file, added |-> 0, skipped |-> 0, raised |-> FALSE, done |-> 0]
    ELSE IngestLoop(Sorted(dir), 1, file, 0, 0)

\* what glob("*.txt") may find in the input directory
Directories ==
    { {},
      {f \in InputFiles : f.exists /\ f.readable},
      {f \in InputFiles : f.exists} }

(***************************************************************************)
(* Date ranges.  No date is None; a date string is its characters.         *)
(***************************************************************************)
NoDate == <<>>

RECURSIVE SplitDashes(_, _)
SplitDashes(str, cur) ==
    IF str = <<>> THEN <<cur>>
    ELSE IF Head(str) = "-" THEN <<cur>> \o SplitDashes(Tail(str), <<>>)
    ELSE SplitDashes(Tail(str), Append(cur, Head(str)))

\* datetime.strptime(s, "%Y-%m-%d"): midnight of the day, or ValueError
StrptimeDate(str) ==
    LET parts == SplitDashes(str, <<>>)
        shaped == /\ Len(parts) = 3
                  /\ \A n \in 1..3 : FullIn(parts[n], Digits)
                  /\ Len(parts[1]) = 4
                  /\ Len(parts[2]) \in 1..2 /\ Len(parts[3]) \in 1..2
    IN  IF shaped /\ DatetimeOk(IntOf(parts[1]), IntOf(parts[2]), IntOf(parts[3]), 0, 0, 0)
        THEN [ok |-> TRUE,
              v |-> <<IntOf(parts[1]), IntOf(parts[2]), IntOf(parts[3]), 0, 0, 0>>]
        ELSE [ok |-> FALSE, v |-> NoDate]

(***************************************************************************)
(* src/chart_manager.py                                                    *)
(***************************************************************************)
CHART_FAVORITES == <<"RTT_Avg_Max", "Packet_Loss", "Jitter", "MOS_Score", "RTT_Threshold">>

\* lines 93-113: the loop over the rows; first_row 0 stands for None
RECURSIVE RowRangeFrom(_, _, _, _, _, _)
RowRangeFrom(sheet, start_date, end_date, row_idx, first_row, last_row) ==
    IF row_idx > max_row(sheet) \/ row_idx > Len(sheet)
    THEN <<IF first_row = 0 THEN 2 ELSE first_row, last_row>>
    ELSE LET cell == sheet[row_idx][1]
             skip == RowRangeFrom(sheet, start_date, end_date, row_idx + 1,
                                  first_row, last_row)
             parsed == IF IsStr(cell) THEN Strptime(cell.v) ELSE [ok |-> TRUE, v |-> cell.v]
         IN  IF cell = None THEN skip
             ELSE IF ~parsed.ok THEN skip
             ELSE IF start_date # NoDate /\ DtLess(parsed.v, start_date) THEN skip
             ELSE IF end_date # NoDate /\ DtLess(end_date, parsed.v) THEN skip
             ELSE RowRangeFrom(sheet, start_date, end_date, row_idx + 1,
                               IF first_row = 0 THEN row_idx ELSE first_row, row_idx)

\* ChartManager.get_row_range_for_dates: <<first_row, last_row>>
get_row_range_for_dates(sheet, start_date, end_date) ==
    RowRangeFrom(sheet, start_date, end_date, 2, 0, 2)

ChartSheet(name, first_row, last_row, start_date, end_date) ==
    [name |-> name, first_row |-> first_row, last_row |-> last_row,
     start_date |-> start_date, end_date |-> end_date]

\* create_chart without lines 156-157: the sheet of the name is not deleted
create_chart_keeps_old(sheets, sheet, chart_name, start_date, end_date) ==
    LET range == get_row_range_for_dates(sheet, start_date, end_date)
    IN  IF range[1] >= range[2] THEN sheets
        ELSE Append(sheets,
                    ChartSheet(chart_name, range[1], range[2], start_date, end_date))

\* ChartManager.create_chart: what it returns, the name of the sheet in a list
\* or, for None, the empty list
create_chart_returns(sheet, chart_name, start_date, end_date) ==
    LET range == get_row_range_for_dates(sheet, start_date, end_date)
    IN  IF range[1] >= range[2] THEN <<>> ELSE <<chart_name>>

\* ChartManager.create_chart: the chart sheets of the workbook afterwards
create_chart(sheets, sheet, chart_name, start_date, end_date) ==
    LET range == get_row_range_for_dates(sheet, start_date, end_date)
        Other(sh) == sh.name # chart_name
    IN  IF range[1] >= range[2] THEN sheets
        ELSE Append(SelectSeq(sheets, Other),
                    ChartSheet(chart_name, range[1], range[2], start_date, end_date))

\* ChartManager.create_all_favorite_charts
RECURSIVE CreateFavoritesFrom(_, _, _, _, _)
CreateFavoritesFrom(sheets, sheet, i, start_date, end_date) ==
    IF i > Len(CHART_FAVORITES) THEN sheets
    ELSE CreateFavoritesFrom(
            create_chart(sheets, sheet, CHART_FAVORITES[i], start_date, end_date),
            sheet, i + 1, start_date, end_date)

create_all_favorite_charts(sheets, sheet, start_date, end_date) ==
    CreateFavoritesFrom(sheets, sheet, 1, start_date, end_date)

\* lines 268-274: the list 'created' that create_all_favorite_charts returns
created_charts(sheet, start_date, end_date) ==
    Flatten([i \in 1..Len(CHART_FAVORITES) |->
                create_chart_returns(sheet, CHART_FAVORITES[i], start_date, end_date)])

\* main.py, generate_all_charts: the workbook file and its chart sheets after
\* the call; a date string that does not parse ends the call at once
generate_all_charts(start_str, end_str, file, sheets) ==
    LET start == IF start_str = NoDate THEN [ok |-> TRUE, v |-> NoDate]
                 ELSE StrptimeDate(start_str)
        end == IF end_str = NoDate THEN [ok |-> TRUE, v |-> NoDate]
               ELSE StrptimeDate(end_str)
        opened == open_or_create(file)
        loaded == IF file = NoFile THEN NoSheets ELSE sheets
    IN  IF ~start.ok \/ ~end.ok
        THEN [workbook |-> file, chart_sheets |-> sheets, opened |-> FALSE,
              range |-> <<0, 0>>, created |-> <<>>]
        ELSE [workbook |-> save(opened),
              chart_sheets |-> create_all_favorite_charts(loaded, opened, start.v, end.v),
              opened |-> TRUE,
              range |-> get_row_range_for_dates(opened, start.v, end.v),
              created |-> created_charts(opened, start.v, end.v)]

(***************************************************************************)
(* src/plotter.py                                                          *)
(***************************************************************************)
\* IPSLAPlotter._load_data: self.data, the rows after the header
LoadData(file) ==
    LET all_data == IF file = NoFile THEN <<>> ELSE get_all_data(open_or_create(file))
    IN  IF Len(all_data) > 1 THEN Tail(all_data) ELSE <<>>

\* IPSLAPlotter._filter_by_date_range
_filter_by_date_range(data, start_date, end_date) ==
    LET InRange(row) ==
            /\ ~(start_date # NoDate /\ DtLess(row[1].v, start_date))
            /\ ~(end_date # NoDate /\ DtLess(end_date, row[1].v))
    IN  IF start_date = NoDate /\ end_date = NoDate THEN data
        ELSE SelectSeq(data, InRange)

\* the date arguments of the command line and of the chart window
Date(y, m, d) == y \o <<"-">> \o m \o <<"-">> \o d

DateArgs ==
    { <<NoDate, NoDate>>,
      <<Date(Y2024, <<"0", "2">>, <<"2", "9">>), NoDate>>,
      <<NoDate, Date(Y2026, <<"6">>, <<"5">>)>>,
      <<Date(Y2024, <<"0", "2">>, <<"2", "9">>), Date(Y2024, <<"0", "2">>, <<"2", "9">>)>>,
      <<Date(Y2026, <<"1", "2">>, <<"3", "2">>), NoDate>>,
      <<Date(<<"2", "0", "2", "7">>, <<"0", "1">>, <<"0", "1">>), NoDate>> }

Init ==
    /\ workbook = NoFile
    /\ call = NoCall
    /\ data_sheet = <<>>
    /\ content = <<>>
    /\ blocks = <<>>
    /\ records = <<>>
    /\ pc = "idle"
    /\ history = <<>>
    /\ chart_sheets = NoSheets

IngestFile ==
    /\ \E f \in InputFiles :
         LET r == ingest_file(f, workbook)
         IN  /\ workbook' = r.workbook
             /\ call' = [op |-> "ingest_file", file |-> f, added |-> r.added,
                         skipped |-> r.skipped, raised |-> r.raised,
                         before |-> workbook]
    /\ UNCHANGED <<data_sheet, content, blocks, records, pc, history, chart_sheets>>

\* ingest-all: ingest_all_files on what the input directory holds
IngestAllFiles ==
    /\ \E dir \in Directories :
         LET r == ingest_all_files(dir, workbook)
         IN  /\ workbook' = r.workbook
             /\ call' = [op |-> "ingest_all_files", dir |-> dir, added |-> r.added,
                         skipped |-> r.skipped, raised |-> r.raised, done |-> r.done,
                         before |-> workbook,
                         repeat |-> (/\ call.op = "ingest_all_files"
                                     /\ call.dir = dir
                                     /\ ~call.raised)]
    /\ UNCHANGED <<data_sheet, content, blocks, records, pc, history, chart_sheets>>

\* charts-cli: generate_all_charts
GenerateAllCharts ==
    /\ \E args \in DateArgs :
         LET r == generate_all_charts(args[1], args[2], workbook, chart_sheets)
         IN  /\ workbook' = r.workbook
             /\ chart_sheets' = r.chart_sheets
             /\ call' = [op |-> "generate_all_charts", start |-> args[1],
                         end |-> args[2], opened |-> r.opened, range |-> r.range,
                         created |-> r.created, had |-> Len(chart_sheets),
                         before |-> workbook]
    /\ UNCHANGED <<data_sheet, content, blocks, records, pc, history>>

\* the chart window: a plotter loaded from the workbook file filters its rows
FilterByDateRange ==
    /\ \E args \in DateArgs :
         /\ (args[1] = NoDate \/ StrptimeDate(args[1]).ok)
         /\ (args[2] = NoDate \/ StrptimeDate(args[2]).ok)
         /\ LET start_date == IF args[1] = NoDate THEN NoDate ELSE StrptimeDate(args[1]).v
                end_date == IF args[2] = NoDate THEN NoDate ELSE StrptimeDate(args[2]).v
            IN  call' = [op |-> "_filter_by_date_range", start |-> start_date,
                         end |-> end_date,
                         ret |-> _filter_by_date_range(LoadData(workbook),
                                                       start_date, end_date),
                         before |-> workbook]
    /\ UNCHANGED <<workbook, chart_sheets, data_sheet, content, blocks, records, pc, history>>

Next == IngestFile \/ IngestAllFiles \/ GenerateAllCharts \/ FilterByDateRange

Spec == Init /\ [][Next]_vars

(***************************************************************************)
(* C4: the program, under Spec.                                            *)
(***************************************************************************)
\* C4: after every ingest_file call that returns, the rows of the store from row
\* 2 down all hold a record, and their start_time values ascend.
C4_SortedAfterIngest ==
    (call.op = "ingest_file" /\ ~call.raised)
    => /\ \A i \in 2..Len(workbook) : IsDatetime(workbook[i][1])
       /\ \A i \in 2..(Len(workbook) - 1) :
            DtLess(workbook[i][1].v, workbook[i + 1][1].v)

C4_Witness ==
    /\ call.op = "ingest_file"
    /\ call.file.name = "d.txt"
    /\ call.added = 2
    /\ call.skipped = 1
    /\ Len(call.before) = 3
    /\ Len(workbook) = 5
    /\ workbook[3] = save(<<to_row(ParsedFiles[call.file].records[2])>>)[1]
    /\ workbook[4] = save(<<to_row(ParsedFiles[call.file].records[1])>>)[1]

\* the Record field each name of the canonical column list stands for
ColumnField ==
    [ StartTime |-> "start_time", MinMOS |-> "min_mos", MaxMOS |-> "max_mos",
      MinICPIF |-> "min_icpif", MaxICPIF |-> "max_icpif", NumRTT |-> "num_rtt",
      RTT_Min_ms |-> "rtt_min_ms", RTT_Avg_ms |-> "rtt_avg_ms",
      RTT_Max_ms |-> "rtt_max_ms",
      RTT_Over_Threshold_Count |-> "rtt_over_threshold_count",
      RTT_Over_Threshold_Pct |-> "rtt_over_threshold_pct",
      Num_OneWay_Samples |-> "num_oneway_samples",
      Jitter_SD_Avg_ms |-> "jitter_sd_avg_ms", Jitter_SD_Max_ms |-> "jitter_sd_max_ms",
      Jitter_DS_Avg_ms |-> "jitter_ds_avg_ms", Jitter_DS_Max_ms |-> "jitter_ds_max_ms",
      Loss_SD |-> "loss_sd", Loss_DS |-> "loss_ds",
      Packet_Late_Arrival |-> "packet_late_arrival", OutOfSeq |-> "out_of_seq",
      TailDrop |-> "tail_drop", Successes |-> "successes", Failures |-> "failures" ]

\* the value of a cell, a number as its decimal
PyValue(c) == IF c.t = "int" THEN <<c.v, 0>> ELSE c.v

\* the value of a Record field, a number as its decimal
FieldValue(r, f) ==
    IF f = "start_time" \/ f \in FloatFields THEN r[f] ELSE <<r[f], 0>>

\* the records of the batch that append_records writes: the first of each key
\* that the store does not hold
Appended(recs, file) ==
    { k \in 1..Len(recs) :
        /\ \A n \in 2..Len(file) : file[n][1] # DtCell(recs[k].start_time)
        /\ \A m \in 1..(k - 1) : recs[m].start_time # recs[k].start_time }

\* C13: to_row returns 23 values, start_time first, the value at each position
\* being the Record field of the column name at that position of COLUMNS; a
\* row appended to the store and read back from the workbook file has, under
\* each header, the value of that field.
C13_RowColumnAlignment ==
    (call.op = "ingest_file" /\ ~call.raised /\ call.file.exists)
    => LET recs == ParsedFiles[call.file].records
           data == get_all_data(open_or_create(workbook))
       IN  \A k \in 1..Len(recs) :
             /\ Len(to_row(recs[k])) = 23
             /\ to_row(recs[k])[1] = DtCell(recs[k].start_time)
             /\ \A i \in 1..23 :
                  PyValue(to_row(recs[k])[i]) = FieldValue(recs[k], ColumnField[COLUMNS[i]])
             /\ k \in Appended(recs, call.before)
                => \E n \in 2..Len(data) :
                     /\ data[n][1] = DtCell(recs[k].start_time)
                     /\ \A i \in 1..Len(data[1]) :
                          PyValue(data[n][i]) =
                              FieldValue(recs[k], ColumnField[data[1][i].v])

C13_Witness ==
    /\ call.op = "ingest_file"
    /\ call.file.name = "e.txt"
    /\ call.added = 2
    /\ Len(call.before) = 4
    /\ workbook[2] = save(<<to_row(ParsedFiles[call.file].records[2])>>)[1]
    /\ workbook[2][17] # workbook[2][18]

\* C17: ingest_file on a missing file returns (0, 0), and the workbook file has
\* the rows it had before the call, in the same order.
C17_MissingFileLeavesStore ==
    (call.op = "ingest_file" /\ ~call.file.exists)
    => /\ ~call.raised
       /\ call.added = 0 /\ call.skipped = 0
       /\ workbook = call.before

C17_Witness ==
    /\ call.op = "ingest_file"
    /\ call.file.name = "missing.txt"
    /\ Len(call.before) = 4
    /\ workbook = call.before

\* C16: when ingest_all_files processes several files and reading one of them
\* fails, the run is not aborted: the call returns, and the records of every
\* readable file of the directory are in the store afterwards.
C16_AsClaimed ==
    call.op = "ingest_all_files"
    => /\ ~call.raised
       /\ \A f \in call.dir :
            f.readable
            => \A k \in 1..Len(ParsedFiles[f].records) :
                 ParsedFiles[f].records[k].start_time
                     \in get_existing_timestamps(workbook)

\* the Records parsed from the files, and how many they are
ParsedKeys(dir) ==
    UNION { { DtCell(ParsedFiles[f].records[k].start_time) :
                k \in 1..Len(ParsedFiles[f].records) } : f \in dir }

RECURSIVE ParsedCount(_)
ParsedCount(dir) ==
    IF dir = {} THEN 0
    ELSE LET f == CHOOSE x \in dir : TRUE
         IN  Len(ParsedFiles[f].records) + ParsedCount(dir \ {f})

\* C27: after ingest_all_files over readable files the stored start_time
\* values are those stored before and those parsed from the files, each in one
\* row; total_added + total_skipped is the number of Records parsed; and the
\* same files ingested again add nothing and leave the workbook file as it was.
C27_IngestAllConverges ==
    (call.op = "ingest_all_files" /\ \A f \in call.dir : f.readable)
    => /\ ~call.raised
       /\ StoredKeys(workbook) = StoredKeys(call.before) \cup ParsedKeys(call.dir)
       /\ Cardinality(StoredRows(workbook)) = Cardinality(StoredKeys(workbook))
       /\ call.added + call.skipped = ParsedCount(call.dir)
       /\ call.repeat => (call.added = 0 /\ workbook = call.before)

C27_Witness ==
    /\ call.op = "ingest_all_files"
    /\ Cardinality(call.dir) = 5
    /\ \A f \in call.dir : f.readable
    /\ Len(call.before) = 3
    /\ call.added > 0 /\ call.skipped > 0
    /\ Len(workbook) > Len(call.before)

\* C19: open_or_create on no workbook file gives the 23 headers and no data
\* row; on a workbook file it gives the rows of the file, the header row once;
\* so open_or_create followed by save, as often as it is done, leaves the
\* stored rows as they were.
C19_OpenOrCreateIdempotent ==
    (call.op = "generate_all_charts" /\ call.opened)
    => /\ Len(workbook) >= 1
       /\ Len(workbook[1]) = 23
       /\ \A i \in 1..23 : workbook[1][i] = StrCell(COLUMNS[i])
       /\ \A n \in 2..Len(workbook) : workbook[n] # workbook[1]
       /\ IF call.before = NoFile THEN Len(workbook) = 1
          ELSE workbook = call.before

C19_Witness ==
    /\ call.op = "generate_all_charts"
    /\ call.opened
    /\ Len(call.before) = 6
    /\ workbook = call.before
    /\ Len(chart_sheets) = 5
    /\ chart_sheets[1].last_row = 3

\* the timestamp is within the bounds, an absent bound leaving its side open
Within(ts, start_date, end_date) ==
    /\ (start_date = NoDate \/ ~DtLess(ts, start_date))
    /\ (end_date = NoDate \/ ~DtLess(end_date, ts))

\* C15: on a store sorted by start_time, the rows first_row..last_row of
\* get_row_range_for_dates, and the list _filter_by_date_range returns, are
\* exactly the stored rows with start <= start_time <= end.
C15_AsClaimed ==
    /\ (call.op = "generate_all_charts" /\ call.opened)
       => LET sheet == open_or_create(call.before)
          IN  { n \in call.range[1]..call.range[2] : n <= Len(sheet) }
              = { n \in 2..Len(sheet) :
                    Within(sheet[n][1].v, StrptimeDate(call.start).v,
                           StrptimeDate(call.end).v) }
    /\ call.op = "_filter_by_date_range"
       => LET data == LoadData(call.before)
              inside == { n \in 1..Len(data) : Within(data[n][1].v, call.start, call.end) }
          IN  /\ Len(call.ret) = Cardinality(inside)
              /\ { call.ret[k] : k \in 1..Len(call.ret) } = { data[n] : n \in inside }

\* the data rows of the sheet whose start_time is within the bounds
RowsWithin(sheet, start_date, end_date) ==
    { n \in 2..Len(sheet) : Within(sheet[n][1].v, start_date, end_date) }

\* C29 (as claimed): create_chart returns None only when no stored row is in
\* the date range; with at least one stored row in the range, one alone
\* included, it creates the chart sheet and returns its name.
C29_AsClaimed ==
    (call.op = "generate_all_charts" /\ call.opened)
    => LET rows == RowsWithin(open_or_create(call.before),
                              StrptimeDate(call.start).v, StrptimeDate(call.end).v)
       IN  IF rows = {} THEN call.created = <<>>
           ELSE /\ call.created = CHART_FAVORITES
                /\ \A i \in 1..Len(CHART_FAVORITES) :
                     \E n \in 1..Len(chart_sheets) :
                        chart_sheets[n].name = CHART_FAVORITES[i]

\* C30: whatever the number of generate_all_charts calls, the workbook holds
\* at most one chart sheet for a favorite, the sheet of a favorite created by
\* the last call being the one that call made (an older sheet of the name is
\* replaced); and the call leaves the header and the data rows of the data
\* sheet as they were.
C30_ChartsRepeatable ==
    /\ \A i, j \in 1..Len(chart_sheets) :
         chart_sheets[i].name = chart_sheets[j].name => i = j
    /\ \A i \in 1..Len(chart_sheets) :
         \E k \in 1..Len(CHART_FAVORITES) : chart_sheets[i].name = CHART_FAVORITES[k]
    /\ (call.op = "generate_all_charts" /\ call.opened)
       => /\ workbook = save(open_or_create(call.before))
          /\ call.before # NoFile => workbook = call.before
          /\ \A k \in 1..Len(call.created) :
               \E n \in 1..Len(chart_sheets) :
                  chart_sheets[n] = ChartSheet(call.created[k], call.range[1],
                                               call.range[2],
                                               StrptimeDate(call.start).v,
                                               StrptimeDate(call.end).v)

C30_Witness ==
    /\ call.op = "generate_all_charts"
    /\ call.opened
    /\ call.had = 5
    /\ Len(call.created) = 5
    /\ Len(chart_sheets) = 5
    /\ call.end # NoDate
    /\ chart_sheets[1].first_row = 2
    /\ chart_sheets[1].last_row >= 3
    /\ chart_sheets[1].last_row < Len(workbook)

====
